---- MODULE Spec2Model ----
(***************************************************************************)
(* Model of the dynamic catalogue store                                    *)
(* (src/src/database/dynamic_database.py, DynamicDatabaseManager) together *)
(* with the parts of SQLite and of the Python runtime its operations rely  *)
(* on: parameter binding, column affinity, NOT NULL, AUTOINCREMENT and the *)
(* transaction that `with sqlite3.connect(...)` commits or rolls back.     *)
(*                                                                         *)
(* Text is a sequence of one-character strings, so that parsing, case      *)
(* folding and comparison are computed and not assumed.                    *)
(***************************************************************************)
EXTENDS Integers, Sequences, FiniteSets, TLC

(***************************************************************************)
(* Bounds of the model.                                                    *)
(***************************************************************************)
\* highest surrogate id the row table hands out before the model stops adding
MaxItemId == 2
\* highest reading of the wall clock (datetime.now())
MaxClock == 1

(***************************************************************************)
(* Text helpers.                                                           *)
(***************************************************************************)
Digits == <<"0", "1", "2", "3", "4", "5", "6", "7", "8", "9">>
UpperChars == <<"A", "B", "C", "D", "E", "F", "G", "H", "I", "J", "K", "L", "M",
                "N", "O", "P", "Q", "R", "S", "T", "U", "V", "W", "X", "Y", "Z">>
LowerChars == <<"a", "b", "c", "d", "e", "f", "g", "h", "i", "j", "k", "l", "m",
                "n", "o", "p", "q", "r", "s", "t", "u", "v", "w", "x", "y", "z">>

IsDigit(c) == \E i \in 1..10 : Digits[i] = c
DigitVal(c) == (CHOOSE i \in 1..10 : Digits[i] = c) - 1
IsUpper(c) == \E i \in 1..26 : UpperChars[i] = c
IsLowerLetter(c) == \E i \in 1..26 : LowerChars[i] = c
\* str.lower() on one character
LowerChar(c) == IF IsUpper(c) THEN LowerChars[CHOOSE i \in 1..26 : UpperChars[i] = c] ELSE c
\* str.lower()
Lower(s) == [i \in 1..Len(s) |-> LowerChar(s[i])]

RECURSIVE LStrip(_)
LStrip(s) == IF s # <<>> /\ s[1] = " " THEN LStrip(Tail(s)) ELSE s
RECURSIVE RStrip(_)
RStrip(s) == IF s # <<>> /\ s[Len(s)] = " " THEN RStrip(SubSeq(s, 1, Len(s) - 1)) ELSE s
\* str.strip()
Strip(s) == RStrip(LStrip(s))

RECURSIVE DigitsVal(_)
DigitsVal(s) == IF s = <<>> THEN 0
                ELSE DigitsVal(SubSeq(s, 1, Len(s) - 1)) * 10 + DigitVal(s[Len(s)])

RECURSIVE NatToStr(_)
NatToStr(n) == IF n < 10 THEN <<Digits[n + 1]>>
               ELSE NatToStr(n \div 10) \o <<Digits[(n % 10) + 1]>>
\* str(n) of an int
IntToStr(n) == IF n < 0 THEN <<"-">> \o NatToStr(0 - n) ELSE NatToStr(n)

(***************************************************************************)
(* Python values that reach the store, as a tagged union: the field name   *)
(* is the type.  A float is held in tenths (PyFloat(25) is 2.5), which is  *)
(* the precision of the inputs of this model.                              *)
(***************************************************************************)
None == [none |-> TRUE]
PyStr(s) == [str |-> s]
PyInt(n) == [int |-> n]
PyFloat(t) == [float |-> t]
PyBool(b) == [bool |-> b]

\* what pandas reads from a sheet besides these: the missing value (NaN) and
\* a date cell (pd.Timestamp, here at midnight, held as its %Y-%m-%d text)
NaN == [nan |-> TRUE]
PyTimestamp(d) == [timestamp |-> d]

IsStr(v) == DOMAIN v = {"str"}
IsInt(v) == DOMAIN v = {"int"}
IsFloat(v) == DOMAIN v = {"float"}
IsBool(v) == DOMAIN v = {"bool"}
IsTimestamp(v) == DOMAIN v = {"timestamp"}

\* Python's decimal digit string with single underscores between digits
IsPyDigits(s) ==
    /\ s # <<>>
    /\ \A i \in 1..Len(s) : IsDigit(s[i]) \/ s[i] = "_"
    /\ IsDigit(s[1]) /\ IsDigit(s[Len(s)])
    /\ \A i \in 1..(Len(s) - 1) : ~(s[i] = "_" /\ s[i + 1] = "_")
PyDigitsVal(s) == DigitsVal(SelectSeq(s, IsDigit))

HasSign(s) == s # <<>> /\ s[1] \in {"+", "-"}
Unsigned(s) == IF HasSign(s) THEN Tail(s) ELSE s
SignOf(s) == IF s # <<>> /\ s[1] = "-" THEN 0 - 1 ELSE 1

\* int(s) for a str: surrounding whitespace, one sign, decimal digits;
\* ok = FALSE stands for ValueError
ParseInt(s) ==
    LET t == Strip(s)
        body == Unsigned(t)
    IN  IF IsPyDigits(body)
        THEN [ok |-> TRUE, n |-> SignOf(t) * PyDigitsVal(body)]
        ELSE [ok |-> FALSE, n |-> 0]

\* index of the first "." of s, or 0
DotAt(s) == IF \E i \in 1..Len(s) : s[i] = "."
            THEN CHOOSE i \in 1..Len(s) : s[i] = "." /\ \A j \in 1..(i - 1) : s[j] # "."
            ELSE 0

\* float(s) for a str without exponent, in tenths: digits, "." and digits,
\* either part possibly empty but not both; digits after the first decimal
\* are below the precision of the model and dropped; whole tells that the
\* number has no fractional part at all
ParseFloat(s) ==
    LET t == Strip(s)
        body == Unsigned(t)
        d == DotAt(body)
        ip == IF d = 0 THEN body ELSE SubSeq(body, 1, d - 1)
        fp == IF d = 0 THEN <<>> ELSE SubSeq(body, d + 1, Len(body))
        okp(p) == p = <<>> \/ IsPyDigits(p)
        iv == IF ip = <<>> THEN 0 ELSE PyDigitsVal(ip)
        fd == SelectSeq(fp, IsDigit)
        fv == IF fd = <<>> THEN 0 ELSE DigitVal(fd[1])
    IN  IF okp(ip) /\ okp(fp) /\ (ip # <<>> \/ fp # <<>>)
        THEN [ok |-> TRUE, t |-> SignOf(t) * (iv * 10 + fv),
              whole |-> \A i \in 1..Len(fd) : fd[i] = "0"]
        ELSE [ok |-> FALSE, t |-> 0, whole |-> FALSE]

\* int(x) of a float: truncation toward zero
TruncTenths(t) == IF t >= 0 THEN t \div 10 ELSE 0 - ((0 - t) \div 10)

\* str(x) of a float
FloatToStr(t) ==
    LET a == IF t >= 0 THEN t ELSE 0 - t
    IN  (IF t < 0 THEN <<"-">> ELSE <<>>) \o NatToStr(a \div 10) \o <<".">> \o NatToStr(a % 10)

\* str(value)
PyToStr(v) ==
    IF IsStr(v) THEN v.str
    ELSE IF IsInt(v) THEN IntToStr(v.int)
    ELSE IF IsFloat(v) THEN FloatToStr(v.float)
    ELSE IF IsBool(v) THEN (IF v.bool THEN <<"T", "r", "u", "e">> ELSE <<"F", "a", "l", "s", "e">>)
    ELSE IF IsTimestamp(v) THEN v.timestamp \o <<" ", "0", "0", ":", "0", "0", ":", "0", "0">>
    ELSE <<"N", "o", "n", "e">>

\* truthiness of a value that is neither bool nor str
Truthy(v) ==
    IF IsInt(v) THEN v.int # 0
    ELSE IF IsFloat(v) THEN v.float # 0
    ELSE IsTimestamp(v)

\* a faulty TrueTokens, which forgets 'on'
TrueTokens_NoOn == { <<"t", "r", "u", "e">>, <<"1">>, <<"y", "e", "s">> }

\* the tokens _convert_value reads as true
TrueTokens == { <<"t", "r", "u", "e">>, <<"1">>, <<"y", "e", "s">>, <<"o", "n">> }

\* DynamicDatabaseManager._convert_value
_convert_value(value, data_type) ==
    IF value = None \/ value = PyStr(<<>>) THEN None
    ELSE IF data_type = "number" THEN
        IF IsStr(value)
        THEN (IF ParseInt(value.str).ok THEN PyInt(ParseInt(value.str).n) ELSE value)
        ELSE IF IsInt(value) THEN value
        ELSE IF IsBool(value) THEN PyInt(IF value.bool THEN 1 ELSE 0)
        ELSE PyInt(TruncTenths(value.float))
    ELSE IF data_type = "decimal" THEN
        IF IsStr(value)
        THEN (IF ParseFloat(value.str).ok THEN PyFloat(ParseFloat(value.str).t) ELSE value)
        ELSE IF IsInt(value) THEN PyFloat(value.int * 10)
        ELSE IF IsBool(value) THEN PyFloat(IF value.bool THEN 10 ELSE 0)
        ELSE value
    ELSE IF data_type = "boolean" THEN
        IF IsBool(value) THEN PyInt(IF value.bool THEN 1 ELSE 0)
        ELSE IF IsStr(value) THEN PyInt(IF Lower(value.str) \in TrueTokens THEN 1 ELSE 0)
        ELSE PyInt(IF Truthy(value) THEN 1 ELSE 0)
    ELSE PyStr(PyToStr(value))

(***************************************************************************)
(* SQLite: storage classes, parameter binding and column affinity.         *)
(***************************************************************************)
SqlNull == [null |-> TRUE]
SqlInteger(n) == [integer |-> n]
SqlReal(t) == [real |-> t]
SqlText(s) == [text |-> s]

IsSqlInteger(v) == DOMAIN v = {"integer"}
IsSqlReal(v) == DOMAIN v = {"real"}
IsSqlText(v) == DOMAIN v = {"text"}

\* sqlite3 adapts a Python parameter to a storage class
Bind(v) ==
    IF v = None THEN SqlNull
    ELSE IF IsInt(v) THEN SqlInteger(v.int)
    ELSE IF IsBool(v) THEN SqlInteger(IF v.bool THEN 1 ELSE 0)
    ELSE IF IsFloat(v) THEN SqlReal(v.float)
    ELSE SqlText(v.str)

\* sqlite3 hands a stored value back to Python
Fetch(v) ==
    IF v = SqlNull THEN None
    ELSE IF IsSqlInteger(v) THEN PyInt(v.integer)
    ELSE IF IsSqlReal(v) THEN PyFloat(v.real)
    ELSE PyStr(v.text)

\* a text that SQLite reads as a number: Python's float syntax without "_"
SqlNumber(s) ==
    IF \E i \in 1..Len(s) : s[i] = "_" THEN [ok |-> FALSE, t |-> 0, whole |-> FALSE]
    ELSE ParseFloat(s)

\* the value a column of declared type sql_type stores for v
ApplyAffinity(sql_type, v) ==
    IF sql_type = "INTEGER" THEN
        IF IsSqlText(v) /\ SqlNumber(v.text).ok
        THEN (IF SqlNumber(v.text).whole THEN SqlInteger(TruncTenths(SqlNumber(v.text).t))
              ELSE SqlReal(SqlNumber(v.text).t))
        ELSE IF IsSqlReal(v) /\ v.real % 10 = 0 THEN SqlInteger(TruncTenths(v.real))
        ELSE v
    ELSE IF sql_type = "REAL" THEN
        IF IsSqlText(v) /\ SqlNumber(v.text).ok THEN SqlReal(SqlNumber(v.text).t)
        ELSE IF IsSqlInteger(v) THEN SqlReal(v.integer * 10)
        ELSE v
    ELSE
        IF IsSqlInteger(v) THEN SqlText(IntToStr(v.integer))
        ELSE IF IsSqlReal(v) THEN SqlText(FloatToStr(v.real))
        ELSE v

(***************************************************************************)
(* Column definitions and the generated table statement.                   *)
(***************************************************************************)
k_id == <<"i", "d">>
k_created_date == <<"c", "r", "e", "a", "t", "e", "d", "_", "d", "a", "t", "e">>
k_modified_date == <<"m", "o", "d", "i", "f", "i", "e", "d", "_", "d", "a", "t", "e">>

\* ColumnDefinition.from_dict
from_dict(data) ==
    [name |-> data.name,
     display_name |-> data.display_name,
     data_type |-> data.data_type,
     required |-> IF "required" \in DOMAIN data THEN data.required ELSE FALSE,
     default_value |-> IF "default_value" \in DOMAIN data THEN data.default_value ELSE <<>>]

\* the list comprehension [ColumnDefinition.from_dict(col) for col in config['columns']]
ColumnsOf(config) == [i \in 1..Len(config.columns) |-> from_dict(config.columns[i])]

\* DynamicDatabaseManager._get_sql_type
_get_sql_type(data_type) ==
    CASE data_type = "text" -> "TEXT"
      [] data_type = "number" -> "INTEGER"
      [] data_type = "decimal" -> "REAL"
      [] data_type = "date" -> "TEXT"
      [] data_type = "boolean" -> "INTEGER"
      [] OTHER -> "TEXT"

\* one column clause of a CREATE TABLE statement
ColumnClause(name, sql_type, autoinc, not_null, default) ==
    [name |-> name, sql_type |-> sql_type, autoincrement |-> autoinc,
     not_null |-> not_null, has_default |-> default # <<>>, default |-> default]

\* DynamicDatabaseManager._generate_table_sql: the statement, clause by clause
_generate_table_sql(columns) ==
    <<ColumnClause(k_id, "INTEGER", TRUE, FALSE, <<>>)>>
    \o [i \in 1..Len(columns) |->
          ColumnClause(columns[i].name, _get_sql_type(columns[i].data_type), FALSE,
                       columns[i].required, columns[i].default_value)]
    \o <<ColumnClause(k_created_date, "TEXT", FALSE, FALSE, <<>>),
         ColumnClause(k_modified_date, "TEXT", FALSE, FALSE, <<>>)>>

\* words SQLite does not accept as a bare column name (those the model uses)
SqlKeywords == { <<"o", "r", "d", "e", "r">>, <<"g", "r", "o", "u", "p">>,
                 <<"t", "a", "b", "l", "e">>, <<"f", "r", "o", "m">> }

\* a bare identifier of SQLite
IsSqlName(s) ==
    /\ s # <<>>
    /\ IsUpper(s[1]) \/ IsLowerLetter(s[1]) \/ s[1] = "_"
    /\ \A i \in 1..Len(s) : IsUpper(s[i]) \/ IsLowerLetter(s[i]) \/ IsDigit(s[i]) \/ s[i] = "_"
    /\ Lower(s) \notin SqlKeywords

\* a faulty SqlAcceptsTable, which lets a column name appear twice
SqlAcceptsTable_Twice(stmt) ==
    /\ \A i \in 1..Len(stmt) : IsSqlName(stmt[i].name)
    /\ \A i \in 1..Len(stmt) : \A k \in 1..Len(stmt[i].default) : stmt[i].default[k] # "'"

\* SQLite accepts the CREATE TABLE statement: every column name is a bare
\* identifier, no two names are equal ignoring case, and no default breaks
\* out of its quotes
SqlAcceptsTable(stmt) ==
    /\ \A i \in 1..Len(stmt) : IsSqlName(stmt[i].name)
    /\ \A i \in 1..Len(stmt) : \A j \in 1..Len(stmt) :
          i # j => Lower(stmt[i].name) # Lower(stmt[j].name)
    /\ \A i \in 1..Len(stmt) : \A k \in 1..Len(stmt[i].default) : stmt[i].default[k] # "'"

(***************************************************************************)
(* The SQLite file.  db is a record:                                       *)
(*   catalogue_config  the rows of table catalogue_config                  *)
(*   has_items         table catalogue_items exists                        *)
(*   items_stmt        the statement catalogue_items was created with      *)
(*   catalogue_items   its rows, each a function from column name to value *)
(*   sqlite_sequence   the AUTOINCREMENT high-water mark (0: no entry)     *)
(***************************************************************************)
\* DynamicDatabaseManager._initialize_database on a new file
EmptyDb ==
    [catalogue_config |-> {}, has_items |-> FALSE, items_stmt |-> <<>>,
     catalogue_items |-> {}, sqlite_sequence |-> 0]

SetMax(S) == CHOOSE m \in S : \A x \in S : x <= m
ItemIds(file) == { r[k_id].integer : r \in file.catalogue_items }
StmtNames(stmt) == { stmt[i].name : i \in 1..Len(stmt) }
ClauseOf(stmt, name) == stmt[CHOOSE i \in 1..Len(stmt) : stmt[i].name = name]

\* a faulty NextRowid: the key declared without AUTOINCREMENT, which takes
\* one more than the highest rowid the table holds now
NextRowid_MaxPlusOne(file) ==
    SetMax(ItemIds(file) \cup {0}) + 1

\* the rowid an AUTOINCREMENT key gives the next row: above every rowid the
\* table has ever held
NextRowid(file) ==
    SetMax(ItemIds(file) \cup {file.sqlite_sequence}) + 1

\* a row violates a NOT NULL constraint of the table
BreaksNotNull(stmt, row) ==
    \E i \in 1..Len(stmt) : stmt[i].not_null /\ row[stmt[i].name] = SqlNull

\* a faulty InsertOrReplace: a plain INSERT that lets the key count up
InsertOrReplace_Appends(rows, row) ==
    rows \cup {[row EXCEPT !.id = Cardinality(rows) + 1]}

\* INSERT OR REPLACE INTO catalogue_config ... (the id is the primary key)
InsertOrReplace(rows, row) ==
    { r \in rows : r.id # row.id } \cup {row}

\* a faulty DropItems: the DROP TABLE statement left out
DropItems_Keeps(file) == file

\* DROP TABLE IF EXISTS catalogue_items
DropItems(file) ==
    [file EXCEPT !.has_items = FALSE, !.items_stmt = <<>>,
               !.catalogue_items = {}, !.sqlite_sequence = 0]

\* INSERT INTO catalogue_items (column_names) VALUES (values);
\* error is "" on success, else the exception sqlite3 raises
SqlInsert(file, column_names, values) ==
    LET stmt == file.items_stmt
        given(name) == \E i \in 1..Len(column_names) : column_names[i] = name
        valueOf(name) == values[CHOOSE i \in 1..Len(column_names) : column_names[i] = name]
        rowid == NextRowid(file)
        row == [name \in StmtNames(stmt) |->
                  IF name = k_id THEN SqlInteger(rowid)
                  ELSE IF given(name)
                       THEN ApplyAffinity(ClauseOf(stmt, name).sql_type, Bind(valueOf(name)))
                  ELSE IF ClauseOf(stmt, name).has_default
                       THEN ApplyAffinity(ClauseOf(stmt, name).sql_type,
                                          SqlText(ClauseOf(stmt, name).default))
                  ELSE SqlNull]
    IN  IF ~file.has_items
           \/ \E i \in 1..Len(column_names) : column_names[i] \notin StmtNames(stmt)
        THEN [error |-> "OperationalError", db |-> file, lastrowid |-> 0]
        ELSE IF BreaksNotNull(stmt, row)
        THEN [error |-> "IntegrityError", db |-> file, lastrowid |-> 0]
        ELSE [error |-> "",
              db |-> [file EXCEPT !.catalogue_items = @ \cup {row}, !.sqlite_sequence = rowid],
              lastrowid |-> rowid]

\* UPDATE catalogue_items SET set_names = values WHERE id = item_id
SqlUpdate(file, set_names, values, item_id) ==
    LET stmt == file.items_stmt
        given(name) == \E i \in 1..Len(set_names) : set_names[i] = name
        \* a column named twice takes the last assignment
        valueOf(name) == values[CHOOSE i \in 1..Len(set_names) :
                                  /\ set_names[i] = name
                                  /\ \A j \in (i + 1)..Len(set_names) : set_names[j] # name]
        hit(r) == r[k_id] = Bind(item_id)
        upd(r) == [name \in DOMAIN r |->
                     IF given(name)
                     THEN ApplyAffinity(ClauseOf(stmt, name).sql_type, Bind(valueOf(name)))
                     ELSE r[name]]
        hits == { r \in file.catalogue_items : hit(r) }
    IN  IF ~file.has_items
           \/ \E i \in 1..Len(set_names) : set_names[i] \notin StmtNames(stmt)
        THEN [error |-> "OperationalError", db |-> file, rowcount |-> 0]
        ELSE IF \E r \in hits : BreaksNotNull(stmt, upd(r))
        THEN [error |-> "IntegrityError", db |-> file, rowcount |-> 0]
        ELSE [error |-> "",
              db |-> [file EXCEPT !.catalogue_items =
                          { r \in @ : ~hit(r) } \cup { upd(r) : r \in hits }],
              rowcount |-> Cardinality(hits)]

\* DELETE FROM catalogue_items WHERE id = item_id
SqlDelete(file, item_id) ==
    LET hits == { r \in file.catalogue_items : r[k_id] = Bind(item_id) }
    IN  IF ~file.has_items
        THEN [error |-> "OperationalError", db |-> file, rowcount |-> 0]
        ELSE [error |-> "",
              db |-> [file EXCEPT !.catalogue_items = @ \ hits],
              rowcount |-> Cardinality(hits)]

\* a faulty Rollback: every statement committed as it runs
Rollback_KeepsPartial(before, partial) == partial

\* the connection's context manager: an exception inside `with
\* sqlite3.connect(...) as conn` rolls the open transaction back
Rollback(before, partial) == before

\* a faulty IsoFormat, which gives the time the process started
IsoFormat_Stale(t) == <<"t", "0">>

\* datetime.now().isoformat() at clock reading t
IsoFormat(t) == <<"t">> \o NatToStr(t)

(***************************************************************************)
(* json.dumps / json.loads of the column list: a str becomes a JSON        *)
(* string, a bool the literal true or false; the array keeps its order.    *)
(***************************************************************************)
JsonOfField(key, v) ==
    IF key = "required" THEN [literal |-> IF v THEN "true" ELSE "false"]
    ELSE [string |-> v]
FieldOfJson(j) ==
    IF DOMAIN j = {"literal"} THEN j.literal = "true" ELSE j.string
json_dumps(columns) ==
    [i \in 1..Len(columns) |->
        [k \in DOMAIN columns[i] |-> JsonOfField(k, columns[i][k])]]
json_loads(doc) ==
    [i \in 1..Len(doc) |-> [k \in DOMAIN doc[i] |-> FieldOfJson(doc[i][k])]]

(***************************************************************************)
(* The methods of DynamicDatabaseManager, as functions of the instance's   *)
(* catalogue_config, the file and the arguments.  Each yields              *)
(*   raised  the exception that leaves the method, "" if none              *)
(*   value   the value returned                                            *)
(*   db      the file afterwards                                           *)
(*   config  self.catalogue_config afterwards                              *)
(***************************************************************************)
Outcome(raised, value, file, config) ==
    [raised |-> raised, value |-> value, db |-> file, config |-> config]

\* CREATE TABLE catalogue_items (...)
SqlCreateTable(file, stmt) ==
    IF file.has_items \/ ~SqlAcceptsTable(stmt)
    THEN [error |-> "OperationalError", db |-> file]
    ELSE [error |-> "", db |-> [file EXCEPT !.has_items = TRUE, !.items_stmt = stmt]]

\* the row create_catalogue_structure writes to catalogue_config
ConfigRow(config, current_time) ==
    [id |-> 1,
     name |-> ApplyAffinity("TEXT", Bind(PyStr(config.name))),
     columns_json |-> json_dumps(config.columns),
     created_date |-> SqlText(current_time),
     modified_date |-> SqlText(current_time)]

\* a faulty CreateFailed, which also forgets the active configuration
CreateFailed_Unconfigures(self_config, file, partial) ==
    Outcome("", PyBool(FALSE), Rollback(file, partial), None)

\* create_catalogue_structure, the except branch: the exception leaves the
\* with block, which rolls back, and the method returns False
CreateFailed(self_config, file, partial) ==
    Outcome("", PyBool(FALSE), Rollback(file, partial), self_config)

\* DynamicDatabaseManager.create_catalogue_structure
create_catalogue_structure(self_config, file, config, current_time) ==
    LET columns == ColumnsOf(config)
        stored == [file EXCEPT !.catalogue_config =
                       InsertOrReplace(@, ConfigRow(config, current_time))]
        dropped == DropItems(stored)
        created == SqlCreateTable(dropped, _generate_table_sql(columns))
    IN  IF created.error = ""
        THEN Outcome("", PyBool(TRUE), created.db, config)
        ELSE CreateFailed(self_config, file, created.db)

\* DynamicDatabaseManager.load_catalogue_config
load_catalogue_config(self_config, file) ==
    LET rows == { r \in file.catalogue_config : r.id = 1 }
        row == CHOOSE r \in rows : TRUE
        config == [name |-> Fetch(row.name).str, columns |-> json_loads(row.columns_json)]
    IN  IF rows # {}
        THEN Outcome("", config, file, config)
        ELSE Outcome("", None, file, self_config)

\* item_data.get(col.name, col.default_value)
DictGet(item_data, col) ==
    IF col.name \in DOMAIN item_data THEN item_data[col.name] ELSE PyStr(col.default_value)

\* a faulty AddValues: item_data.get(col.name) without the declared default
AddValues_IgnoresDefault(columns, item_data) ==
    [i \in 1..Len(columns) |->
        _convert_value(IF columns[i].name \in DOMAIN item_data
                       THEN item_data[columns[i].name] ELSE None,
                       columns[i].data_type)]

\* add_item, "Prepare values with type conversion"
AddValues(columns, item_data) ==
    [i \in 1..Len(columns) |-> _convert_value(DictGet(item_data, columns[i]), columns[i].data_type)]

ColumnNames(columns) == [i \in 1..Len(columns) |-> columns[i].name]

\* DynamicDatabaseManager.add_item
add_item(self_config, file, item_data, current_time) ==
    IF self_config = None
    THEN Outcome("Exception", None, file, self_config)
    ELSE LET columns == ColumnsOf(self_config)
             column_names == ColumnNames(columns) \o <<k_created_date, k_modified_date>>
             values == AddValues(columns, item_data)
                         \o <<PyStr(current_time), PyStr(current_time)>>
             ins == SqlInsert(file, column_names, values)
         IN  IF ins.error = ""
             THEN Outcome("", PyInt(ins.lastrowid), ins.db, self_config)
             ELSE Outcome(ins.error, None, Rollback(file, ins.db), self_config)

\* a faulty UpdateColumns, which loses the first column it is given
UpdateColumns_SkipsFirst(columns, item_data) ==
    LET named == SelectSeq(columns, LAMBDA col : col.name \in DOMAIN item_data)
    IN  IF named = <<>> THEN named ELSE Tail(named)

\* update_item, "Prepare update statement": the columns named in item_data
UpdateColumns(columns, item_data) ==
    SelectSeq(columns, LAMBDA col : col.name \in DOMAIN item_data)

\* DynamicDatabaseManager.update_item
update_item(self_config, file, item_id, item_data, current_time) ==
    IF self_config = None
    THEN Outcome("", PyBool(FALSE), file, self_config)
    ELSE LET columns == UpdateColumns(ColumnsOf(self_config), item_data)
             set_names == ColumnNames(columns) \o <<k_modified_date>>
             values == [i \in 1..Len(columns) |->
                          _convert_value(item_data[columns[i].name], columns[i].data_type)]
                         \o <<PyStr(current_time)>>
             upd == SqlUpdate(file, set_names, values, item_id)
         IN  IF upd.error = ""
             THEN Outcome("", PyBool(upd.rowcount > 0), upd.db, self_config)
             ELSE Outcome(upd.error, None, Rollback(file, upd.db), self_config)

\* a faulty delete_item, which tests rowcount >= 0
delete_item_AlwaysTrue(self_config, file, item_id) ==
    LET del == SqlDelete(file, item_id)
    IN  IF del.error = ""
        THEN Outcome("", PyBool(del.rowcount >= 0), del.db, self_config)
        ELSE Outcome(del.error, None, Rollback(file, del.db), self_config)

\* DynamicDatabaseManager.delete_item
delete_item(self_config, file, item_id) ==
    LET del == SqlDelete(file, item_id)
    IN  IF del.error = ""
        THEN Outcome("", PyBool(del.rowcount > 0), del.db, self_config)
        ELSE Outcome(del.error, None, Rollback(file, del.db), self_config)

\* SELECT ... ORDER BY id, each row as dict(row)
RECURSIVE OrderById(_)
OrderById(rows) ==
    IF rows = {} THEN <<>>
    ELSE LET first == CHOOSE r \in rows : \A q \in rows : r[k_id].integer <= q[k_id].integer
         IN  <<first>> \o OrderById(rows \ {first})
RowDict(r) == [name \in DOMAIN r |-> Fetch(r[name])]
RowDicts(rows) == LET ordered == OrderById(rows)
                  IN  [i \in 1..Len(ordered) |-> RowDict(ordered[i])]
PyList(seq) == [list |-> seq]

\* SQLite's LIKE: % is any run of characters, _ any one character, letters
\* compare ignoring case
RECURSIVE LikeMatch(_, _)
LikeMatch(pattern, text) ==
    IF pattern = <<>> THEN text = <<>>
    ELSE IF pattern[1] = "%"
         THEN LikeMatch(Tail(pattern), text)
              \/ (text # <<>> /\ LikeMatch(pattern, Tail(text)))
    ELSE IF text = <<>> THEN FALSE
    ELSE IF pattern[1] = "_" THEN LikeMatch(Tail(pattern), Tail(text))
    ELSE LowerChar(pattern[1]) = LowerChar(text[1]) /\ LikeMatch(Tail(pattern), Tail(text))

\* Python's `sub in s` for two str
IsSubstring(sub, s) ==
    \E i \in 0..(Len(s) - Len(sub)) : SubSeq(s, i + 1, i + Len(sub)) = sub

\* value LIKE pattern; NULL matches nothing
SqlLike(v, pattern) ==
    IF v = SqlNull THEN FALSE
    ELSE LikeMatch(pattern, ApplyAffinity("TEXT", v).text)

\* DynamicDatabaseManager.get_all_items
get_all_items(self_config, file) ==
    IF self_config = None THEN Outcome("", PyList(<<>>), file, self_config)
    ELSE IF ~file.has_items THEN Outcome("OperationalError", None, file, self_config)
    ELSE Outcome("", PyList(RowDicts(file.catalogue_items)), file, self_config)

\* DynamicDatabaseManager.get_item_by_id
get_item_by_id(self_config, file, item_id) ==
    LET hits == { r \in file.catalogue_items : r[k_id] = Bind(item_id) }
    IN  IF ~file.has_items THEN Outcome("OperationalError", None, file, self_config)
        ELSE IF hits = {} THEN Outcome("", None, file, self_config)
        ELSE Outcome("", RowDict(CHOOSE r \in hits : TRUE), file, self_config)

\* the characters of the model in the order of their codes
Ascii == <<" ", "-", ".">> \o Digits \o <<":">> \o UpperChars \o <<"_">> \o LowerChars
CharCode(c) == CHOOSE i \in 1..Len(Ascii) : Ascii[i] = c

\* SQLite's BINARY collation: text a sorts before text b
RECURSIVE TextLess(_, _)
TextLess(a, b) ==
    IF b = <<>> THEN FALSE
    ELSE IF a = <<>> THEN TRUE
    ELSE IF a[1] # b[1] THEN CharCode(a[1]) < CharCode(b[1])
    ELSE TextLess(Tail(a), Tail(b))

\* a number in tenths
SqlTenths(v) == IF IsSqlInteger(v) THEN v.integer * 10 ELSE v.real

\* ORDER BY: value a sorts before value b; NULL first, then numbers by
\* value, then texts
SqlLess(a, b) ==
    IF a = SqlNull THEN b # SqlNull
    ELSE IF b = SqlNull THEN FALSE
    ELSE IF IsSqlText(a) THEN IsSqlText(b) /\ TextLess(a.text, b.text)
    ELSE IsSqlText(b) \/ SqlTenths(a) < SqlTenths(b)

\* SELECT DISTINCT ... ORDER BY: the values of a set in ascending order
RECURSIVE OrderBy(_)
OrderBy(values) ==
    IF values = {} THEN <<>>
    ELSE LET first == CHOOSE v \in values : \A w \in values \ {v} : SqlLess(v, w)
         IN  <<first>> \o OrderBy(values \ {first})

\* DynamicDatabaseManager.get_column_values for a column_name that is an SQL
\* name; SQLite resolves it among the columns of the table, ignoring case,
\* and raises OperationalError, which is caught, when there is none
get_column_values(self_config, file, column_name) ==
    LET hits == { name \in StmtNames(file.items_stmt) : Lower(name) = Lower(column_name) }
        column == CHOOSE name \in hits : TRUE
        values == { r[column] : r \in file.catalogue_items } \ {SqlNull, SqlText(<<>>)}
        ordered == OrderBy(values)
    IN  IF self_config = None THEN Outcome("", PyList(<<>>), file, self_config)
        ELSE IF ~file.has_items \/ hits = {} THEN Outcome("", PyList(<<>>), file, self_config)
        ELSE Outcome("", PyList([i \in 1..Len(ordered) |-> Fetch(ordered[i])]),
                     file, self_config)

\* a faulty SearchHits, which leaves the % signs out of the pattern
SearchHits_ExactTerm(rows, text_columns, search_term) ==
    { r \in rows : \E i \in 1..Len(text_columns) :
          SqlLike(r[text_columns[i]], search_term) }

\* search_items: the rows the WHERE clause over text_columns keeps
SearchHits(rows, text_columns, search_term) ==
    { r \in rows : \E i \in 1..Len(text_columns) :
          SqlLike(r[text_columns[i]], <<"%">> \o search_term \o <<"%">>) }

\* DynamicDatabaseManager.search_items
search_items(self_config, file, search_term) ==
    IF self_config = None THEN Outcome("", PyList(<<>>), file, self_config)
    ELSE LET columns == ColumnsOf(self_config)
             text_columns == ColumnNames(SelectSeq(columns, LAMBDA col : col.data_type = "text"))
         IN  IF text_columns = <<>> THEN Outcome("", PyList(<<>>), file, self_config)
             ELSE IF ~file.has_items
                     \/ \E i \in 1..Len(text_columns) :
                           text_columns[i] \notin StmtNames(file.items_stmt)
             THEN Outcome("OperationalError", None, file, self_config)
             ELSE Outcome("", PyList(RowDicts(SearchHits(file.catalogue_items, text_columns,
                                                         search_term))),
                          file, self_config)

(***************************************************************************)
(* The spreadsheet import (src/src/utils/dynamic_excel_handler.py,         *)
(* DynamicExcelHandler).                                                   *)
(***************************************************************************)
\* DynamicExcelHandler._get_default_for_type
_get_default_for_type(data_type) ==
    CASE data_type = "text" -> PyStr(<<>>)
      [] data_type = "number" -> PyInt(0)
      [] data_type = "decimal" -> PyFloat(0)
      [] data_type = "date" -> PyStr(<<>>)
      [] data_type = "boolean" -> PyBool(FALSE)
      [] OTHER -> PyStr(<<>>)

\* column.default_value or self._get_default_for_type(column.data_type)
DefaultOr(column) ==
    IF column.default_value # <<>> THEN PyStr(column.default_value)
    ELSE _get_default_for_type(column.data_type)

\* pd.isna(value)
IsNa(value) == value = NaN \/ value = None

\* float(value), in tenths; ok = FALSE stands for ValueError or TypeError
ToFloat(value) ==
    IF IsStr(value) THEN [ok |-> ParseFloat(value.str).ok, t |-> ParseFloat(value.str).t]
    ELSE IF IsInt(value) THEN [ok |-> TRUE, t |-> value.int * 10]
    ELSE IF IsBool(value) THEN [ok |-> TRUE, t |-> IF value.bool THEN 10 ELSE 0]
    ELSE IF IsFloat(value) THEN [ok |-> TRUE, t |-> value.float]
    ELSE [ok |-> FALSE, t |-> 0]

\* the tokens _convert_excel_value reads as true
ExcelTrueTokens == TrueTokens \cup { <<"y">> }

\* DynamicExcelHandler._convert_excel_value
_convert_excel_value(value, column) ==
    IF IsNa(value) \/ value = PyStr(<<>>) THEN DefaultOr(column)
    ELSE IF column.data_type = "number" THEN
        IF ToFloat(value).ok THEN PyInt(TruncTenths(ToFloat(value).t)) ELSE DefaultOr(column)
    ELSE IF column.data_type = "decimal" THEN
        IF ToFloat(value).ok THEN PyFloat(ToFloat(value).t) ELSE DefaultOr(column)
    ELSE IF column.data_type = "boolean" THEN
        IF IsBool(value) THEN value
        ELSE IF IsStr(value) THEN PyBool(Lower(value.str) \in ExcelTrueTokens)
        ELSE PyBool(Truthy(value))
    ELSE IF column.data_type = "date" THEN
        IF IsTimestamp(value) THEN PyStr(value.timestamp) ELSE PyStr(PyToStr(value))
    ELSE PyStr(Strip(PyToStr(value)))

\* df.columns.str.strip()
StripHeaders(headers) == [i \in 1..Len(headers) |-> Strip(headers[i])]

\* the smallest index of a non-empty set of indices: the first hit of a loop
\* that breaks
FirstOf(indices) == CHOOSE i \in indices : \A j \in indices : i <= j

\* import_from_excel, "Try exact match first (case-insensitive)"
ExactHeaders(excel_cols, column) ==
    { i \in 1..Len(excel_cols) : Lower(excel_cols[i]) = Lower(column.display_name) }

\* import_from_excel, "Try partial matches if exact match fails"
PartialHeaders(excel_cols, column) ==
    { i \in 1..Len(excel_cols) :
        \/ IsSubstring(Lower(column.display_name), Lower(excel_cols[i]))
        \/ IsSubstring(Lower(excel_cols[i]), Lower(column.display_name)) }

\* a faulty MatchedHeader, which tries the partial match first
MatchedHeader_PartialFirst(excel_cols, column) ==
    IF PartialHeaders(excel_cols, column) # {} THEN FirstOf(PartialHeaders(excel_cols, column))
    ELSE 0

\* import_from_excel, the body of `for column in self.columns`: the index of
\* the header the column is mapped to, 0 when it stays unmapped
MatchedHeader(excel_cols, column) ==
    IF ExactHeaders(excel_cols, column) # {} THEN FirstOf(ExactHeaders(excel_cols, column))
    ELSE IF PartialHeaders(excel_cols, column) # {}
    THEN FirstOf(PartialHeaders(excel_cols, column))
    ELSE 0

\* import_from_excel, column_mapping after the first n columns: a dict from
\* header to column key, in which a later assignment replaces an earlier one
RECURSIVE MappingUpTo(_, _, _)
MappingUpTo(excel_cols, columns, n) ==
    IF n = 0 THEN <<>>
    ELSE IF MatchedHeader(excel_cols, columns[n]) = 0
    THEN MappingUpTo(excel_cols, columns, n - 1)
    ELSE (excel_cols[MatchedHeader(excel_cols, columns[n])] :> columns[n].name)
         @@ MappingUpTo(excel_cols, columns, n - 1)

column_mapping(excel_cols, columns) == MappingUpTo(excel_cols, columns, Len(columns))

\* df.rename(columns=column_mapping): the headers after renaming
Renamed(excel_cols, mapping) ==
    [i \in 1..Len(excel_cols) |->
        IF excel_cols[i] \in DOMAIN mapping THEN mapping[excel_cols[i]] ELSE excel_cols[i]]

\* import_from_excel, the item built from one row of the sheet
ItemOfRow(columns, df_columns, row) ==
    [name \in { columns[i].name : i \in 1..Len(columns) } |->
        LET column == columns[CHOOSE i \in 1..Len(columns) :
                                 columns[i].name = name
                                 /\ \A j \in (i + 1)..Len(columns) : columns[j].name # name]
            at == { i \in 1..Len(df_columns) : df_columns[i] = name }
        IN  IF at = {} THEN DefaultOr(column)
            ELSE IF IsNa(row[FirstOf(at)]) THEN DefaultOr(column)
            ELSE _convert_excel_value(row[FirstOf(at)], column)]

\* truth of str(value).strip()
HasText(value) == Strip(PyToStr(value)) # <<>>

\* DynamicExcelHandler._is_valid_item
_is_valid_item(columns, item) ==
    IF \A i \in 1..Len(columns) : ~columns[i].required
    THEN \E name \in DOMAIN item : item[name] # None /\ HasText(item[name])
    ELSE \E i \in 1..Len(columns) :
            /\ columns[i].required
            /\ item[columns[i].name] # None /\ HasText(item[columns[i].name])

\* DynamicExcelHandler.import_from_excel(file_path) of a handler made for
\* columns; sheet is what pd.read_excel gives for the file: its headers and
\* its rows, a row being the cells under the headers.  Two columns of one
\* name after renaming make row[column.name] a Series, whose truth value
\* raises; the handler raises Exception in its place.
import_from_excel(columns, sheet) ==
    LET excel_cols == StripHeaders(sheet.headers)
        df_columns == Renamed(excel_cols, column_mapping(excel_cols, columns))
        twice == sheet.rows # <<>> /\ \E i \in 1..Len(columns) :
                    Cardinality({ j \in 1..Len(df_columns) : df_columns[j] = columns[i].name }) > 1
        items == [r \in 1..Len(sheet.rows) |-> ItemOfRow(columns, df_columns, sheet.rows[r])]
    IN  IF twice THEN [raised |-> "Exception", value |-> None]
        ELSE [raised |-> "",
              value |-> PyList(SelectSeq(items, LAMBDA item : _is_valid_item(columns, item)))]

\* DynamicExcelHandler._format_value_for_excel
_format_value_for_excel(value, column) ==
    IF value = None \/ value = PyStr(<<>>) THEN PyStr(<<>>)
    ELSE IF column.data_type = "boolean" THEN
        IF IsBool(value) THEN PyStr(IF value.bool THEN <<"Y", "e", "s">> ELSE <<"N", "o">>)
        ELSE IF IsInt(value) THEN PyStr(IF value.int # 0 THEN <<"Y", "e", "s">> ELSE <<"N", "o">>)
        ELSE IF IsStr(value) THEN PyStr(<<"Y", "e", "s">>)
        ELSE PyStr(<<"N", "o">>)
    ELSE IF column.data_type = "decimal" THEN
        IF ToFloat(value).ok THEN PyFloat(ToFloat(value).t) ELSE PyFloat(0)
    ELSE IF column.data_type = "number" THEN
        IF IsStr(value)
        THEN (IF ParseInt(value.str).ok THEN PyInt(ParseInt(value.str).n) ELSE PyInt(0))
        ELSE IF IsInt(value) THEN value
        ELSE IF IsBool(value) THEN PyInt(IF value.bool THEN 1 ELSE 0)
        ELSE IF IsFloat(value) THEN PyInt(TruncTenths(value.float))
        ELSE PyInt(0)
    ELSE PyStr(PyToStr(value))

\* DynamicExcelHandler.export_to_excel(items, file_path) of a handler made
\* for columns: the sheet written, its headers the display names and one row
\* of formatted cells per item
export_to_excel(columns, items) ==
    [headers |-> [i \in 1..Len(columns) |-> columns[i].display_name],
     rows |-> [n \in 1..Len(items) |->
                 [i \in 1..Len(columns) |->
                     _format_value_for_excel(DictGet(items[n], columns[i]), columns[i])]]]

\* pd.read_excel of a written sheet: a cell holding the empty string is read
\* as a missing value
read_excel(written) ==
    [headers |-> written.headers,
     rows |-> [n \in 1..Len(written.rows) |->
                 [i \in 1..Len(written.rows[n]) |->
                     IF written.rows[n][i] = PyStr(<<>>) THEN NaN ELSE written.rows[n][i]]]]

\* a faulty ValidateHeaders, which knows equality only
ValidateHeaders_ExactOnly(excel_cols, column) ==
    { i \in 1..Len(excel_cols) : Lower(excel_cols[i]) = Lower(column.display_name) }

\* DynamicExcelHandler.validate_excel_format, the headers a column matches:
\* one loop, equality and containment together
ValidateHeaders(excel_cols, column) ==
    { i \in 1..Len(excel_cols) :
        \/ Lower(excel_cols[i]) = Lower(column.display_name)
        \/ IsSubstring(Lower(column.display_name), Lower(excel_cols[i]))
        \/ IsSubstring(Lower(excel_cols[i]), Lower(column.display_name)) }

\* DynamicExcelHandler.validate_excel_format(file_path) of a handler made for
\* columns, sheet being what pd.read_excel gives for the file
validate_excel_format(columns, sheet) ==
    LET excel_cols == StripHeaders(sheet.headers)
        matched == SelectSeq(columns, LAMBDA c : ValidateHeaders(excel_cols, c) # {})
        missing == SelectSeq(columns, LAMBDA c : ValidateHeaders(excel_cols, c) = {} /\ c.required)
        unmatched == SelectSeq(columns,
                               LAMBDA c : ValidateHeaders(excel_cols, c) = {} /\ ~c.required)
    IN  [valid |-> missing = <<>>,
         rows |-> Len(sheet.rows),
         columns |-> sheet.headers,
         matched_columns |->
            [i \in 1..Len(matched) |->
                [catalogue_column |-> matched[i].display_name,
                 excel_column |-> excel_cols[FirstOf(ValidateHeaders(excel_cols, matched[i]))],
                 required |-> matched[i].required]],
         unmatched_columns |-> [i \in 1..Len(unmatched) |-> unmatched[i].display_name],
         missing_columns |-> [i \in 1..Len(missing) |-> missing[i].display_name],
         errors |-> IF missing = <<>> THEN <<>> ELSE <<"Missing required columns">>]

(***************************************************************************)
(* The main window (src/src/gui/dynamic_main_window.py).  A form is the    *)
(* content of the input widgets, by column key: the text of a line edit,   *)
(* the value of a spin box, the date of a date edit, the state of a check  *)
(* box.                                                                    *)
(***************************************************************************)
\* DynamicFormWidget.validate_form: is_valid
validate_form(columns, form) ==
    \A i \in 1..Len(columns) :
        columns[i].required /\ columns[i].data_type = "text"
            => Strip(form[columns[i].name].str) # <<>>

\* DynamicFormWidget.get_form_data
get_form_data(columns, form) ==
    [name \in { columns[i].name : i \in 1..Len(columns) } |->
        IF IsStr(form[name]) THEN PyStr(Strip(form[name].str)) ELSE form[name]]

\* DynamicMainWindow.import_from_excel, the body of `for i, item in
\* enumerate(items, 1)` once add_item has ended with out
Counted(so_far, out) ==
    IF out.raised = ""
    THEN [so_far EXCEPT !.db = out.db, !.added_count = @ + 1]
    ELSE [so_far EXCEPT !.errors =
            Append(@, [row |-> so_far.added_count + Len(so_far.errors) + 1,
                       error |-> out.raised])]

\* DynamicMainWindow.import_from_excel, "Add items to database": the file,
\* added_count and errors once the remaining items are added
RECURSIVE AddItems(_, _, _, _)
AddItems(self_config, so_far, items, current_time) ==
    IF items = <<>> THEN so_far
    ELSE AddItems(self_config,
                  Counted(so_far, add_item(self_config, so_far.db, Head(items), current_time)),
                  Tail(items), current_time)

(***************************************************************************)
(* The setup wizard (src/src/gui/setup_wizard.py).  An editor is the text  *)
(* of its widgets: name_input, display_name_input, data_type, required,    *)
(* default_value_input.                                                    *)
(***************************************************************************)
\* str.replace(old, new) for single characters
Replace(s, old, new) == [i \in 1..Len(s) |-> IF s[i] = old THEN new ELSE s[i]]

\* ColumnEditor.get_column_definition
get_column_definition(editor) ==
    [name |-> Replace(Lower(Strip(editor.name_input)), " ", "_"),
     display_name |-> Strip(editor.display_name_input),
     data_type |-> editor.data_type,
     required |-> editor.required,
     default_value |-> Strip(editor.default_value_input)]

\* ColumnEditor.is_valid
is_valid(editor) ==
    Strip(editor.name_input) # <<>> /\ Strip(editor.display_name_input) # <<>>

\* ColumnDefinition.to_dict
to_dict(column) ==
    [name |-> column.name, display_name |-> column.display_name,
     data_type |-> column.data_type, required |-> column.required,
     default_value |-> column.default_value]

\* SetupWizard.create_catalogue, then get_catalogue_config when the dialog
\* was accepted; reply is the answer to "No Required Fields ... Continue
\* anyway?".  The result is the warning shown, or the dialog left open by
\* the answer No, or the configuration the dialog was accepted with.
create_catalogue(catalogue_name_input, column_editors, reply) ==
    LET n == Len(column_editors)
        columns == [i \in 1..n |-> get_column_definition(column_editors[i])]
        incomplete(i) == ~is_valid(column_editors[i])
        duplicate(i) == \E j \in 1..(i - 1) : columns[j].name = columns[i].name
        stops == { i \in 1..n : incomplete(i) \/ duplicate(i) }
        first == CHOOSE i \in stops : \A j \in stops : i <= j
    IN  IF Strip(catalogue_name_input) = <<>> THEN [warning |-> "Please enter a catalogue name!"]
        ELSE IF stops # {}
        THEN (IF incomplete(first) THEN [warning |-> "Please complete all fields"]
              ELSE [warning |-> "Duplicate column name"])
        ELSE IF (\A i \in 1..n : ~columns[i].required) /\ ~reply THEN [open |-> TRUE]
        ELSE [accepted |-> [name |-> Strip(catalogue_name_input),
                            columns |-> [i \in 1..n |-> to_dict(columns[i])]]]

(***************************************************************************)
(* Inputs of the model.                                                    *)
(***************************************************************************)
k_name == <<"n", "a", "m", "e">>
k_qty == <<"q", "t", "y">>
k_bogus == <<"b", "o", "g", "u", "s">>

\* the scenario of the specification: name is a required text, qty an
\* integer with default "0"
PartsConfig ==
    [name |-> <<"P", "a", "r", "t", "s">>,
     columns |-> <<[name |-> k_name, display_name |-> <<"N", "a", "m", "e">>,
                    data_type |-> "text", required |-> TRUE, default_value |-> <<>>],
                   [name |-> k_qty, display_name |-> <<"Q", "t", "y">>,
                    data_type |-> "number", required |-> FALSE,
                    default_value |-> <<"0">>]>>]
\* one decimal column and no text column; the optional keys are left out
StockConfig ==
    [name |-> <<"S", "t", "o", "c", "k">>,
     columns |-> <<[name |-> k_qty, display_name |-> <<"Q", "t", "y">>,
                    data_type |-> "decimal"]>>]
\* one optional text column
NotesConfig ==
    [name |-> <<"N", "o", "t", "e", "s">>,
     columns |-> <<[name |-> k_name, display_name |-> <<"N", "a", "m", "e">>,
                    data_type |-> "text", required |-> FALSE, default_value |-> <<>>]>>]
\* a column that takes the name of the surrogate key: SQLite rejects the table
ClashConfig ==
    [name |-> <<"C", "l", "a", "s", "h">>,
     columns |-> <<[name |-> k_id, display_name |-> <<"I", "d">>,
                    data_type |-> "text", required |-> FALSE, default_value |-> <<>>]>>]
\* two columns of one name: SQLite rejects the table
TwinConfig ==
    [name |-> <<"T", "w", "i", "n">>,
     columns |-> <<[name |-> k_name, display_name |-> <<"N", "a", "m", "e">>,
                    data_type |-> "text", required |-> FALSE, default_value |-> <<>>],
                   [name |-> k_name, display_name |-> <<"N", "a", "m", "e">>,
                    data_type |-> "number", required |-> FALSE, default_value |-> <<>>]>>]
Configs == {PartsConfig, StockConfig, NotesConfig, ClashConfig, TwinConfig}

Bolt == <<"B", "o", "l", "t">>
\* add_item: the scenario's add, which leaves qty to its default; an empty
\* name with a qty to parse; a dict without a name, with a key that is no
\* column and a qty that is no number
AddInputs ==
    { (k_name :> PyStr(Bolt)),
      (k_name :> PyStr(<<>>)) @@ (k_qty :> PyStr(<<"3", ".", "0">>)),
      (k_bogus :> PyInt(1)) @@ (k_qty :> PyStr(<<"x">>)) }
\* update_item: one column and a key that is no column; an empty value for
\* the required column; no key at all
UpdateInputs ==
    { (k_qty :> PyStr(<<"7", ".", "0">>)) @@ (k_bogus :> PyInt(1)),
      (k_name :> PyStr(<<>>)),
      <<>> }
ItemIdInputs == 1..(MaxItemId + 1)
\* what a user types into a column editor: names with capitals, blanks
\* around and inside, a hyphen, a reserved word, nothing
EditorInputs ==
    { [name_input |-> n, display_name_input |-> d, data_type |-> "text",
       required |-> r, default_value_input |-> <<>>] :
        n \in { <<"I", "t", "e", "m", " ", "N", "o">>, <<"I", "t", "e", "m", "-", "N", "o">>,
                <<" ", "Q", "t", "y", " ">>, <<"q", "t", "y">>, k_id, <<" ">> },
        d \in { <<"Q", "t", "y">>, <<>> },
        r \in BOOLEAN }
\* the wizard's form: the catalogue name, one or two column editors and the
\* answer to its question
WizardInputs ==
    { <<c, e, reply>> :
        c \in { <<"P", "a", "r", "t", "s">>, <<>> },
        e \in { <<e1>> : e1 \in EditorInputs }
              \cup { <<e1, e2>> : e1 \in EditorInputs,
                                 e2 \in { x \in EditorInputs : x.required /\ x.display_name_input # <<>> } },
        reply \in BOOLEAN }
\* the five logical types of a column
DataTypes == {"text", "number", "decimal", "date", "boolean"}
\* the wizard's form on the start of the window: the scenario's name and
\* qty columns, qty an integer that is required or not
StartInputs ==
    { << <<"P", "a", "r", "t", "s">>,
         << [name_input |-> <<"N", "a", "m", "e">>, display_name_input |-> <<"N", "a", "m", "e">>,
             data_type |-> "text", required |-> TRUE, default_value_input |-> <<>>],
            [name_input |-> <<"Q", "t", "y">>, display_name_input |-> <<"Q", "t", "y">>,
             data_type |-> "number", required |-> r, default_value_input |-> <<>>] >>,
         TRUE >> : r \in BOOLEAN }
\* the wizard's form on "New Catalogue Structure": one decimal qty column, or
\* one optional name column
ReplaceInputs ==
    { << <<"S", "t", "o", "c", "k">>,
         << [name_input |-> <<"Q", "t", "y">>, display_name_input |-> <<"Q", "t", "y">>,
             data_type |-> "decimal", required |-> FALSE, default_value_input |-> <<>>] >>,
         TRUE >>,
      << <<"N", "o", "t", "e", "s">>,
         << [name_input |-> <<"N", "a", "m", "e">>, display_name_input |-> <<"N", "a", "m", "e">>,
             data_type |-> "text", required |-> FALSE, default_value_input |-> <<>>] >>,
         TRUE >> }
\* what the widget of a column can hold: a line edit any text, a spin box an
\* integer, a check box a state, a date edit a date
WidgetValues(data_type) ==
    CASE data_type = "number" -> { PyInt(0), PyInt(3) }
      [] data_type = "decimal" -> { PyFloat(0), PyFloat(25) }
      [] data_type = "boolean" -> { PyBool(FALSE), PyBool(TRUE) }
      [] data_type = "date" -> { PyStr(<<"2", "0", "2", "4", "-", "0", "1", "-", "0", "2">>) }
      [] OTHER -> { PyStr(<<>>), PyStr(<<" ">>), PyStr(Bolt) }
\* the contents of the form made for columns
FormInputs(columns) ==
    { form \in [{ columns[i].name : i \in 1..Len(columns) } ->
                  UNION { WidgetValues(t) : t \in DataTypes }] :
        \A i \in 1..Len(columns) : form[columns[i].name] \in WidgetValues(columns[i].data_type) }
\* the sheets the user picks: name and qty cells filled or left empty, in
\* one or two rows, and a sheet without the name header
WindowSheets ==
    { [headers |-> << <<"N", "a", "m", "e">>, <<"Q", "t", "y">> >>, rows |-> rows] :
        rows \in { << <<c, d>> >> : c \in {PyStr(Bolt), NaN}, d \in {PyInt(3), NaN} }
                 \cup { << <<NaN, PyInt(3)>>, <<PyStr(Bolt), NaN>> >> } }
    \cup { [headers |-> << <<"Q", "t", "y">> >>, rows |-> << <<PyInt(3)>> >>] }
\* columns whose labels contain one another, and one apart from them
NameColumn ==
    [name |-> k_name, display_name |-> <<"N", "a", "m", "e">>, data_type |-> "text",
     required |-> TRUE, default_value |-> <<>>]
ItemNameColumn ==
    [name |-> <<"i", "t", "e", "m", "_", "n", "a", "m", "e">>,
     display_name |-> <<"I", "t", "e", "m", " ", "N", "a", "m", "e">>, data_type |-> "text",
     required |-> FALSE, default_value |-> <<>>]
QtyColumn ==
    [name |-> k_qty, display_name |-> <<"Q", "t", "y">>, data_type |-> "number",
     required |-> FALSE, default_value |-> <<"0">>]
\* the column lists of the handlers that import: one or two of these
ImportColumns ==
    LET C == {NameColumn, ItemNameColumn, QtyColumn}
    IN  { <<c>> : c \in C } \cup { pair \in C \X C : pair[1] # pair[2] }
\* headers of a sheet: a label, a label in other cases and with blanks
\* around, a part of a label
ImportHeaders ==
    { <<"I", "t", "e", "m", " ", "N", "a", "m", "e">>, <<"n", "a", "m", "e">>,
      <<" ", "N", "A", "M", "E", " ">>, <<"Q", "t">> }
\* the cells of the imported sheets
ImportCells == { PyStr(Bolt), NaN, PyInt(3) }
\* sheets of one row under one or two headers
ImportSheets ==
    { [headers |-> <<h>>, rows |-> << <<c>> >>] : h \in ImportHeaders, c \in ImportCells }
    \cup { [headers |-> hs, rows |-> << <<c, d>> >>] :
             hs \in { pair \in ImportHeaders \X ImportHeaders : pair[1] # pair[2] },
             c \in ImportCells, d \in ImportCells }
\* raw values handed to the coercion of the write path: nothing, numerals,
\* recognised and unrecognised words in several cases, native numbers and
\* booleans
CoerceValues ==
    { None, PyStr(<<>>), PyStr(<<"3", ".", "0">>), PyStr(<<"x">>), PyStr(<<" ", "1", " ">>),
      PyStr(<<"0">>), PyStr(<<"Y", "e", "s">>), PyStr(<<"y">>), PyStr(<<"O", "N">>),
      PyStr(<<"t", "r", "u", "e">>), PyInt(0), PyInt(2), PyFloat(0), PyFloat(25),
      PyBool(TRUE), PyBool(FALSE) }
\* the cells of a sheet: these, an empty cell and a date cell
ExcelValues ==
    CoerceValues \cup { NaN, PyTimestamp(<<"2", "0", "2", "4", "-", "0", "1", "-", "0", "2">>) }
\* a column of each type, without and with a declared default
CoerceColumns ==
    { [name |-> k_qty, display_name |-> <<"Q", "t", "y">>, data_type |-> t,
       required |-> FALSE, default_value |-> d] : t \in DataTypes, d \in {<<>>, <<"1">>} }
\* _generate_table_sql: defaults without a quote, with one quote, with a
\* doubled quote, and one that closes the literal and goes on
DefaultInputs == { <<>>, <<"0">>, <<"O", "'", "N">>, <<"a", "'", "'", "b">>,
                   <<"a", "'", " ", "N", "O", "T", " ", "N", "U", "L", "L", " ", "D", "E", "F", "A", "U", "L", "T", " ", "'", "b">> }
ColumnInputs(names, types) ==
    { [name |-> n, display_name |-> n, data_type |-> t, required |-> r,
       default_value |-> d] :
        n \in names, t \in types, r \in BOOLEAN, d \in DefaultInputs }
\* the lists of no, one and two Column Definitions
SchemaColumns ==
    {<<>>}
    \cup { <<c>> : c \in ColumnInputs({k_name, k_qty}, DataTypes) }
    \cup { <<c, d>> : c \in ColumnInputs({k_name}, {"text"}),
                      d \in ColumnInputs({k_qty}, {"number", "decimal"}) }

\* the names of listed rows: one name in two cases, which sort apart, and
\* twice the same
ListNames == { Bolt, <<"b", "o", "l", "t">> }
\* get_column_values: the two columns of the scenario, a name that is no
\* column, and the surrogate key
ColumnNameInputs == { k_name, k_qty, k_bogus, k_id }
\* search_items: a term in another case than the stored text, a term no row
\* holds, a digit the integer column holds, and SQL's one-character wildcard
SearchTerms == { <<"b", "O">>, <<"z">>, <<"0">>, <<"_">> }

(***************************************************************************)
(* State.                                                                  *)
(*   catalogue_config  self.catalogue_config of the running instance       *)
(*   db                the SQLite file at db_path                          *)
(*   clock             the last reading of datetime.now()                  *)
(*   pc                "idle" between calls, "called" while one runs       *)
(*   op, ret           the last call and what it returned or raised        *)
(*   issued            the ids add_item has returned since the row table   *)
(*                     was last created                                    *)
(*   prior             before that call: the number of rows of the table   *)
(*                     and whether the instance was configured             *)
(*   excel_handler     the catalogue_config the main window's              *)
(*                     self.excel_handler was made with, None before       *)
(*   pdf_exporter      the same for self.pdf_exporter                      *)
(***************************************************************************)
VARIABLES catalogue_config, db, clock, pc, op, ret, issued, prior, excel_handler,
          pdf_exporter
vars == <<catalogue_config, db, clock, pc, op, ret, issued, prior, excel_handler,
          pdf_exporter>>

Returned(v) == [returned |-> v]
Raised(e) == [raised |-> e]
Running == [running |-> TRUE]
Result(out) == IF out.raised = "" THEN Returned(out.value) ELSE Raised(out.raised)

Calling(method) == pc = "called" /\ DOMAIN op = {method}

\* datetime.now(): the clock does not run backwards
Now == { t \in clock..(clock + 1) : t <= MaxClock }

\* the calls a user of the store can make
Calls ==
    {[__init__ |-> TRUE], [load_catalogue_config |-> TRUE]}
    \cup { [create_catalogue_structure |-> config] : config \in Configs }
    \cup { [add_item |-> item_data] : item_data \in AddInputs }
    \cup { [update_item |-> <<item_id, item_data>>] :
             item_id \in ItemIdInputs, item_data \in UpdateInputs }
    \cup { [delete_item |-> item_id] : item_id \in ItemIdInputs }

\* DynamicDatabaseManager.__init__ on a new file
Init ==
    /\ catalogue_config = None
    /\ db = EmptyDb
    /\ clock = 0
    /\ pc = "idle"
    /\ op = [__init__ |-> TRUE]
    /\ ret = Returned(None)
    /\ issued = {}
    /\ prior = [rows |-> 0, configured |-> FALSE]
    /\ excel_handler = None
    /\ pdf_exporter = None

\* the caller makes its next call; the synchronous store runs one at a time
Invoke ==
    /\ pc = "idle"
    /\ \E call \in Calls :
          /\ DOMAIN call = {"add_item"} => NextRowid(db) <= MaxItemId
          /\ op' = call
    /\ pc' = "called"
    /\ ret' = Running
    /\ prior' = [rows |-> Cardinality(db.catalogue_items),
                 configured |-> catalogue_config # None]
    /\ UNCHANGED <<catalogue_config, db, clock, issued>>
    /\ UNCHANGED <<excel_handler, pdf_exporter>>

\* a new process: DynamicDatabaseManager.__init__ on the file as it is
Restart ==
    /\ Calling("__init__")
    /\ catalogue_config' = None
    /\ pc' = "idle"
    /\ ret' = Returned(None)
    /\ UNCHANGED <<db, clock, op, issued, prior>>
    /\ UNCHANGED <<excel_handler, pdf_exporter>>

CreateCatalogueStructure ==
    /\ Calling("create_catalogue_structure")
    /\ \E t \in Now :
        \E out \in {create_catalogue_structure(catalogue_config, db,
                                              op.create_catalogue_structure, IsoFormat(t))} :
            /\ clock' = t
            /\ db' = out.db
            /\ catalogue_config' = out.config
            /\ ret' = Result(out)
            /\ issued' = IF out.value = PyBool(TRUE) THEN {} ELSE issued
    /\ pc' = "idle"
    /\ UNCHANGED <<op, prior>>
    /\ UNCHANGED <<excel_handler, pdf_exporter>>

LoadCatalogueConfig ==
    /\ Calling("load_catalogue_config")
    /\ \E out \in {load_catalogue_config(catalogue_config, db)} :
           /\ db' = out.db
           /\ catalogue_config' = out.config
           /\ ret' = Result(out)
    /\ pc' = "idle"
    /\ UNCHANGED <<clock, op, issued, prior>>
    /\ UNCHANGED <<excel_handler, pdf_exporter>>

AddItem ==
    /\ Calling("add_item")
    /\ \E t \in Now :
        \E out \in {add_item(catalogue_config, db, op.add_item, IsoFormat(t))} :
            /\ clock' = IF catalogue_config = None THEN clock ELSE t
            /\ db' = out.db
            /\ catalogue_config' = out.config
            /\ ret' = Result(out)
            /\ issued' = IF out.raised = "" THEN issued \cup {out.value.int} ELSE issued
    /\ pc' = "idle"
    /\ UNCHANGED <<op, prior>>
    /\ UNCHANGED <<excel_handler, pdf_exporter>>

UpdateItem ==
    /\ Calling("update_item")
    /\ \E t \in Now :
        \E out \in {update_item(catalogue_config, db, PyInt(op.update_item[1]),
                               op.update_item[2], IsoFormat(t))} :
            /\ clock' = IF catalogue_config = None THEN clock ELSE t
            /\ db' = out.db
            /\ catalogue_config' = out.config
            /\ ret' = Result(out)
    /\ pc' = "idle"
    /\ UNCHANGED <<op, issued, prior>>
    /\ UNCHANGED <<excel_handler, pdf_exporter>>

DeleteItem ==
    /\ Calling("delete_item")
    /\ \E out \in {delete_item(catalogue_config, db, PyInt(op.delete_item))} :
           /\ db' = out.db
           /\ catalogue_config' = out.config
           /\ ret' = Result(out)
    /\ pc' = "idle"
    /\ UNCHANGED <<clock, op, issued, prior>>
    /\ UNCHANGED <<excel_handler, pdf_exporter>>

Next ==
    \/ Invoke
    \/ Restart
    \/ CreateCatalogueStructure
    \/ LoadCatalogueConfig
    \/ AddItem
    \/ UpdateItem
    \/ DeleteItem

Spec == Init /\ [][Next]_vars

(***************************************************************************)
(* The two coercion routines on their own: op is the call with its         *)
(* arguments, ret what it returned.                                        *)
(***************************************************************************)
ConvertValue ==
    /\ pc = "idle"
    /\ \E value \in CoerceValues, data_type \in DataTypes :
          /\ op' = [_convert_value |-> <<value, data_type>>]
          /\ ret' = Returned(_convert_value(value, data_type))
    /\ UNCHANGED <<catalogue_config, db, clock, pc, issued, prior>>
    /\ UNCHANGED <<excel_handler, pdf_exporter>>

ConvertExcelValue ==
    /\ pc = "idle"
    /\ \E value \in ExcelValues, column \in CoerceColumns :
          /\ op' = [_convert_excel_value |-> <<value, column>>]
          /\ ret' = Returned(_convert_excel_value(value, column))
    /\ UNCHANGED <<catalogue_config, db, clock, pc, issued, prior>>
    /\ UNCHANGED <<excel_handler, pdf_exporter>>

CoerceNext ==
    \/ ConvertValue
    \/ ConvertExcelValue

CoerceSpec == Init /\ [][CoerceNext]_vars

(***************************************************************************)
(* First start on a new file: DynamicMainWindow.__init__ finds no          *)
(* configuration and shows the setup wizard.  One step is one click on     *)
(* "Create" with the form as it is; when the dialog is accepted            *)
(* show_setup_wizard hands its configuration to the store.                 *)
(***************************************************************************)
\* DynamicMainWindow._initialize_handlers, called by __init__ when the
\* window has a configuration
_initialize_handlers ==
    IF catalogue_config' # None
    THEN excel_handler' = catalogue_config' /\ pdf_exporter' = catalogue_config'
    ELSE UNCHANGED <<excel_handler, pdf_exporter>>

show_setup_wizard(form, t) ==
    \E dialog \in {create_catalogue(form[1], form[2], form[3])} :
        /\ op' = [create_catalogue |-> form]
        /\ IF DOMAIN dialog = {"accepted"}
           THEN \E out \in {create_catalogue_structure(catalogue_config, db,
                                                       dialog.accepted, IsoFormat(t))} :
                    /\ db' = out.db
                    /\ catalogue_config' = out.config
                    /\ clock' = t
                    /\ ret' = IF out.value = PyBool(TRUE)
                              THEN [information |-> dialog.accepted]
                              ELSE [critical |-> dialog.accepted]
           ELSE /\ ret' = dialog
                /\ UNCHANGED <<db, catalogue_config, clock>>

ShowSetupWizard ==
    /\ pc = "idle"
    /\ load_catalogue_config(catalogue_config, db).value = None
    /\ \E form \in WizardInputs, t \in Now : show_setup_wizard(form, t)
    /\ UNCHANGED <<pc, issued, prior>>
    /\ _initialize_handlers

WizardNext ==
    \/ ShowSetupWizard

WizardSpec == Init /\ [][WizardNext]_vars

(***************************************************************************)
(* The import routine on its own: a handler made for a column list reads   *)
(* a sheet.                                                                *)
(***************************************************************************)
\* the caller hands a sheet to a handler made for a column list
ImportInvoke ==
    /\ pc = "idle"
    /\ \E columns \in ImportColumns, sheet \in ImportSheets :
          \/ op' = [import_from_excel |-> <<columns, sheet>>]
          \/ op' = [validate_excel_format |-> <<columns, sheet>>]
    /\ pc' = "called"
    /\ ret' = Running
    /\ UNCHANGED <<catalogue_config, db, clock, issued, prior>>
    /\ UNCHANGED <<excel_handler, pdf_exporter>>

ImportFromExcel ==
    /\ Calling("import_from_excel")
    /\ ret' = Result(import_from_excel(op.import_from_excel[1], op.import_from_excel[2]))
    /\ pc' = "idle"
    /\ UNCHANGED <<catalogue_config, db, clock, op, issued, prior>>
    /\ UNCHANGED <<excel_handler, pdf_exporter>>

ValidateExcelFormat ==
    /\ Calling("validate_excel_format")
    /\ ret' = Returned(validate_excel_format(op.validate_excel_format[1],
                                             op.validate_excel_format[2]))
    /\ pc' = "idle"
    /\ UNCHANGED <<catalogue_config, db, clock, op, issued, prior>>
    /\ UNCHANGED <<excel_handler, pdf_exporter>>

ImportNext ==
    \/ ImportInvoke
    \/ ImportFromExcel
    \/ ValidateExcelFormat

ImportSpec == Init /\ [][ImportNext]_vars

(***************************************************************************)
(* The main window: it starts on a new file, the wizard sets the catalogue *)
(* up, and the user then adds and updates items through the form and       *)
(* imports sheets.  The window's catalogue_config, the columns of its form *)
(* and of its excel_handler are those of the store's catalogue_config.     *)
(* op is the handler with what the user entered, ret the message box the   *)
(* handler ends with.  The clock readings of one import fall on one tick.  *)
(***************************************************************************)
\* DynamicMainWindow.__init__ on a new file: load_existing_config finds
\* nothing and the wizard is shown
StartWindow ==
    /\ pc = "idle"
    /\ load_catalogue_config(catalogue_config, db).value = None
    /\ \E form \in StartInputs, t \in Now : show_setup_wizard(form, t)
    /\ UNCHANGED <<pc, issued, prior>>
    /\ _initialize_handlers

\* DynamicMainWindow.add_item
FormAddItem ==
    /\ pc = "idle"
    /\ catalogue_config # None
    /\ NextRowid(db) <= MaxItemId
    /\ \E form \in FormInputs(ColumnsOf(catalogue_config)), t \in Now :
          /\ op' = [form_add_item |-> form]
          /\ IF ~validate_form(ColumnsOf(catalogue_config), form)
             THEN /\ ret' = [warning |-> "Validation Error"]
                  /\ UNCHANGED <<db, clock, issued>>
             ELSE \E out \in {add_item(catalogue_config, db,
                                       get_form_data(ColumnsOf(catalogue_config), form),
                                       IsoFormat(t))} :
                    /\ db' = out.db
                    /\ clock' = t
                    /\ issued' = IF out.raised = "" THEN issued \cup {out.value.int}
                                 ELSE issued
                    /\ ret' = IF out.raised = "" THEN [information |-> "Success"]
                              ELSE [critical |-> out.raised]
    /\ UNCHANGED <<catalogue_config, pc, prior>>
    /\ UNCHANGED <<excel_handler, pdf_exporter>>

\* DynamicMainWindow.update_item, current_item_id being the row picked by
\* edit_selected_item
FormUpdateItem ==
    /\ pc = "idle"
    /\ catalogue_config # None
    /\ \E current_item_id \in ItemIds(db),
          form \in FormInputs(ColumnsOf(catalogue_config)), t \in Now :
          /\ op' = [form_update_item |-> <<current_item_id, form>>]
          /\ IF ~validate_form(ColumnsOf(catalogue_config), form)
             THEN /\ ret' = [warning |-> "Validation Error"]
                  /\ UNCHANGED <<db, clock>>
             ELSE \E out \in {update_item(catalogue_config, db, PyInt(current_item_id),
                                          get_form_data(ColumnsOf(catalogue_config), form),
                                          IsoFormat(t))} :
                    /\ db' = out.db
                    /\ clock' = t
                    /\ ret' = IF out.raised # "" THEN [critical |-> out.raised]
                              ELSE IF out.value = PyBool(TRUE) THEN [information |-> "Success"]
                              ELSE [warning |-> "Warning"]
    /\ UNCHANGED <<catalogue_config, pc, issued, prior>>
    /\ UNCHANGED <<excel_handler, pdf_exporter>>

\* DynamicMainWindow.import_from_excel with an existing file: sheet is the
\* file picked, reply the answer to "Import Preview ... Continue?"
WindowImportFromExcel ==
    /\ pc = "idle"
    /\ catalogue_config # None
    /\ excel_handler # None
    /\ \E sheet \in WindowSheets, reply \in BOOLEAN, t \in Now :
          /\ NextRowid(db) + Len(sheet.rows) - 1 <= MaxItemId
          /\ op' = [window_import_from_excel |-> <<sheet, reply>>]
          /\ IF ~validate_excel_format(ColumnsOf(excel_handler), sheet).valid
             THEN /\ ret' = [warning |-> "Validation Error"]
                  /\ UNCHANGED <<db, clock, issued>>
             ELSE IF ~reply
             THEN /\ ret' = [question |-> "Import Preview"]
                  /\ UNCHANGED <<db, clock, issued>>
             ELSE \E read \in {import_from_excel(ColumnsOf(excel_handler), sheet)} :
                    IF read.raised # ""
                    THEN /\ ret' = [critical |-> read.raised]
                         /\ UNCHANGED <<db, clock, issued>>
                    ELSE IF read.value.list = <<>>
                    THEN /\ ret' = [information |-> "No Data"]
                         /\ UNCHANGED <<db, clock, issued>>
                    ELSE \E done \in {AddItems(catalogue_config,
                                                [db |-> db, added_count |-> 0,
                                                 errors |-> <<>>],
                                                read.value.list, IsoFormat(t))} :
                           /\ db' = done.db
                           /\ clock' = t
                           /\ issued' = issued \cup (ItemIds(done.db) \ ItemIds(db))
                           /\ ret' = [import_complete |->
                                        [added_count |-> done.added_count,
                                         errors |-> done.errors]]
    /\ UNCHANGED <<catalogue_config, pc, prior>>
    /\ UNCHANGED <<excel_handler, pdf_exporter>>

WindowNext ==
    \/ StartWindow
    \/ FormAddItem
    \/ FormUpdateItem
    \/ WindowImportFromExcel

WindowSpec == Init /\ [][WindowNext]_vars

(***************************************************************************)
(* The text of the CREATE TABLE statement and SQLite's reading of it.      *)
(* _generate_table_sql above gives the statement clause by clause; here is *)
(* the str the method returns, character by character, and the column      *)
(* definitions SQLite's parser takes from such a text (the part of the     *)
(* grammar the generated statements reach: bare words, '...' literals with *)
(* '' for a quote, commas, the outer parentheses, and the constraints      *)
(* PRIMARY KEY AUTOINCREMENT, NOT NULL and DEFAULT 'literal').             *)
(***************************************************************************)
SqlTypeText(sql_type) ==
    CASE sql_type = "TEXT" -> <<"T", "E", "X", "T">>
      [] sql_type = "INTEGER" -> <<"I", "N", "T", "E", "G", "E", "R">>
      [] sql_type = "REAL" -> <<"R", "E", "A", "L">>

\* f"    {column.name} {sql_type} {null_constraint} {default_constraint},"
ColumnLine(column) ==
    <<" ", " ", " ", " ">> \o column.name \o <<" ">>
    \o SqlTypeText(_get_sql_type(column.data_type)) \o <<" ">>
    \o (IF column.required THEN <<"N", "O", "T", " ", "N", "U", "L", "L">> ELSE <<>>) \o <<" ">>
    \o (IF column.default_value # <<>>
        THEN <<"D", "E", "F", "A", "U", "L", "T", " ", "'">> \o column.default_value \o <<"'">>
        ELSE <<>>)
    \o <<",">>

\* "\n".join(sql_parts)
RECURSIVE JoinLines(_)
JoinLines(sql_parts) ==
    IF Len(sql_parts) = 1 THEN sql_parts[1]
    ELSE sql_parts[1] \o <<"\n">> \o JoinLines(Tail(sql_parts))

\* DynamicDatabaseManager._generate_table_sql: the str it returns
TableSqlText(columns) ==
    JoinLines(<<<<"C", "R", "E", "A", "T", "E", " ", "T", "A", "B", "L", "E", " ", "c", "a", "t", "a", "l", "o", "g", "u", "e", "_", "i", "t", "e", "m", "s", " ", "(">>, <<" ", " ", " ", " ", "i", "d", " ", "I", "N", "T", "E", "G", "E", "R", " ", "P", "R", "I", "M", "A", "R", "Y", " ", "K", "E", "Y", " ", "A", "U", "T", "O", "I", "N", "C", "R", "E", "M", "E", "N", "T", ",">>>>
              \o [i \in 1..Len(columns) |-> ColumnLine(columns[i])]
              \o <<<<" ", " ", " ", " ", "c", "r", "e", "a", "t", "e", "d", "_", "d", "a", "t", "e", " ", "T", "E", "X", "T", ",">>, <<" ", " ", " ", " ", "m", "o", "d", "i", "f", "i", "e", "d", "_", "d", "a", "t", "e", " ", "T", "E", "X", "T">>, <<")">> >>)

IsSqlSpace(c) == c \in {" ", "\n"}
IsSqlPunct(c) == c \in {",", "(", ")", "'"}

IsSqlDelimiter(text, k) == IsSqlSpace(text[k]) \/ IsSqlPunct(text[k])

\* the first character at or after text[i] that is no white space
SkipSpaces(text, i) ==
    IF \A k \in i..Len(text) : IsSqlSpace(text[k]) THEN Len(text) + 1
    ELSE CHOOSE k \in i..Len(text) :
            ~IsSqlSpace(text[k]) /\ \A j \in i..(k - 1) : IsSqlSpace(text[j])

\* the last character of the word that starts at text[i]
WordEnd(text, i) ==
    CHOOSE k \in i..Len(text) :
        /\ \A j \in i..k : ~IsSqlDelimiter(text, j)
        /\ k = Len(text) \/ IsSqlDelimiter(text, k + 1)

QuotesIn(text, i, k) == Cardinality({ j \in i..k : text[j] = "'" })
\* the quote that closes the literal whose body starts at text[i]; 0 when
\* the text ends first.  Two quotes in a row stand for one quote.
ClosesAt(text, i, k) ==
    /\ text[k] = "'"
    /\ QuotesIn(text, i, k) % 2 = 1
    /\ k = Len(text) \/ text[k + 1] # "'"
StringEnd(text, i) ==
    IF \A k \in i..Len(text) : ~ClosesAt(text, i, k) THEN 0
    ELSE CHOOSE k \in i..Len(text) :
            ClosesAt(text, i, k) /\ \A j \in i..(k - 1) : ~ClosesAt(text, i, j)

\* the value of a literal's body
RECURSIVE Unescape(_)
Unescape(body) ==
    IF body = <<>> THEN <<>>
    ELSE IF body[1] = "'" THEN <<"'">> \o Unescape(Tail(Tail(body)))
         ELSE <<body[1]>> \o Unescape(Tail(body))

\* SQLite's tokenizer, from text[i] on, which is no white space
RECURSIVE Lex(_, _, _)
Lex(text, i, toks) ==
    IF i > Len(text) THEN toks
    ELSE IF text[i] = "'"
         THEN IF StringEnd(text, i + 1) = 0 THEN Append(toks, [bad |-> TRUE])
              ELSE Lex(text, SkipSpaces(text, StringEnd(text, i + 1) + 1),
                       Append(toks, [string |-> Unescape(SubSeq(text, i + 1,
                                                   StringEnd(text, i + 1) - 1))]))
    ELSE IF IsSqlPunct(text[i])
         THEN Lex(text, SkipSpaces(text, i + 1), Append(toks, [punct |-> text[i]]))
    ELSE Lex(text, SkipSpaces(text, WordEnd(text, i) + 1),
             Append(toks, [word |-> SubSeq(text, i, WordEnd(text, i))]))

IsWord(tok, word) == DOMAIN tok = {"word"} /\ Lower(tok.word) = Lower(word)
IsPunctTok(tok, c) == DOMAIN tok = {"punct"} /\ tok.punct = c
StartsConstraint(tok) ==
    IsWord(tok, <<"N", "O", "T">>) \/ IsWord(tok, <<"D", "E", "F", "A", "U", "L", "T">>) \/ IsWord(tok, <<"P", "R", "I", "M", "A", "R", "Y">>)

SyntaxError == [error |-> "syntax error"]

\* the column constraints of one column definition
RECURSIVE ReadConstraints(_, _)
ReadConstraints(toks, clause) ==
    IF toks = <<>> THEN clause
    ELSE IF Len(toks) >= 2 /\ IsWord(toks[1], <<"N", "O", "T">>) /\ IsWord(toks[2], <<"N", "U", "L", "L">>)
         THEN ReadConstraints(SubSeq(toks, 3, Len(toks)), [clause EXCEPT !.not_null = TRUE])
    ELSE IF Len(toks) >= 2 /\ IsWord(toks[1], <<"D", "E", "F", "A", "U", "L", "T">>) /\ DOMAIN toks[2] = {"string"}
         THEN ReadConstraints(SubSeq(toks, 3, Len(toks)),
                              [clause EXCEPT !.has_default = TRUE,
                                             !.default = toks[2].string])
    ELSE IF /\ Len(toks) >= 3 /\ IsWord(toks[1], <<"P", "R", "I", "M", "A", "R", "Y">>) /\ IsWord(toks[2], <<"K", "E", "Y">>)
            /\ IsWord(toks[3], <<"A", "U", "T", "O", "I", "N", "C", "R", "E", "M", "E", "N", "T">>)
         THEN ReadConstraints(SubSeq(toks, 4, Len(toks)),
                              [clause EXCEPT !.autoincrement = TRUE])
    ELSE SyntaxError

\* one column definition: a name, at most one word of type, constraints
ReadColumnDef(toks) ==
    IF toks = <<>> \/ DOMAIN toks[1] # {"word"} THEN SyntaxError
    ELSE IF Len(toks) >= 2 /\ DOMAIN toks[2] = {"word"} /\ ~StartsConstraint(toks[2])
         THEN ReadConstraints(SubSeq(toks, 3, Len(toks)),
                              [name |-> toks[1].word, type_name |-> toks[2].word,
                               autoincrement |-> FALSE, not_null |-> FALSE,
                               has_default |-> FALSE, default |-> <<>>])
         ELSE ReadConstraints(SubSeq(toks, 2, Len(toks)),
                              [name |-> toks[1].word, type_name |-> <<>>,
                               autoincrement |-> FALSE, not_null |-> FALSE,
                               has_default |-> FALSE, default |-> <<>>])

\* the column definitions between the parentheses, cut at the commas
RECURSIVE SplitDefs(_, _, _)
SplitDefs(toks, current, defs) ==
    IF toks = <<>> THEN Append(defs, current)
    ELSE IF IsPunctTok(toks[1], ",") THEN SplitDefs(Tail(toks), <<>>, Append(defs, current))
    ELSE SplitDefs(Tail(toks), Append(current, toks[1]), defs)

ReadDefs(defs) == [i \in 1..Len(defs) |-> ReadColumnDef(defs[i])]
TableOf(clauses) ==
    IF \E i \in 1..Len(clauses) : clauses[i] = SyntaxError THEN SyntaxError
    ELSE IF \E i, j \in 1..Len(clauses) :
               i # j /\ Lower(clauses[i].name) = Lower(clauses[j].name)
         THEN [error |-> "duplicate column name"]
    ELSE [columns |-> clauses]
ReadTokens(toks) ==
    IF \/ \E i \in 1..Len(toks) : DOMAIN toks[i] = {"bad"}
       \/ Len(toks) < 6
       \/ ~IsWord(toks[1], <<"C", "R", "E", "A", "T", "E">>) \/ ~IsWord(toks[2], <<"T", "A", "B", "L", "E">>)
       \/ ~IsWord(toks[3], <<"c", "a", "t", "a", "l", "o", "g", "u", "e", "_", "i", "t", "e", "m", "s">>)
       \/ ~IsPunctTok(toks[4], "(") \/ ~IsPunctTok(toks[Len(toks)], ")")
    THEN SyntaxError
    ELSE TableOf(ReadDefs(SplitDefs(SubSeq(toks, 5, Len(toks) - 1), <<>>, <<>>)))

\* what conn.execute(items_table_sql) makes of the text: the table's column
\* definitions, or an error
ReadCreateTable(text) == ReadTokens(Lex(text, SkipSpaces(text, 1), <<>>))

(***************************************************************************)
(* The fixed store (src/src/database/database.py, DatabaseManager): the    *)
(* file holds the table components.  A row is modelled by its id and its   *)
(* name; the other columns take no part in the listing.                    *)
(***************************************************************************)
\* DatabaseManager._initialize_database on a new file
EmptyComponents == [components |-> {}, sqlite_sequence |-> 0]

\* DatabaseManager.add_component: name is TEXT NOT NULL, id AUTOINCREMENT
add_component(file, component_data) ==
    LET rowid == (IF file.components = {} THEN file.sqlite_sequence
                  ELSE SetMax({file.sqlite_sequence}
                              \cup { r[k_id].integer : r \in file.components })) + 1
        name == ApplyAffinity("TEXT",
                              Bind(IF k_name \in DOMAIN component_data
                                   THEN component_data[k_name] ELSE PyStr(<<>>)))
        row == (k_id :> SqlInteger(rowid)) @@ (k_name :> name)
    IN  IF name = SqlNull
        THEN [raised |-> "IntegrityError", value |-> None, db |-> file]
        ELSE [raised |-> "", value |-> PyInt(rowid),
              db |-> [file EXCEPT !.components = @ \cup {row}, !.sqlite_sequence = rowid]]

\* DatabaseManager.delete_component
delete_component(file, component_id) ==
    LET hits == { r \in file.components : r[k_id] = Bind(component_id) }
    IN  [raised |-> "", value |-> PyBool(hits # {}),
         db |-> [file EXCEPT !.components = @ \ hits]]

\* a faulty OrderByName: the rows as the table holds them, by id
OrderByName_Unsorted(rows) == OrderById(rows)

\* SELECT * FROM components ORDER BY name: ascending name; rows of one name
\* come out as the scan meets them, by id
RECURSIVE OrderByName(_)
OrderByName(rows) ==
    IF rows = {} THEN <<>>
    ELSE LET first == CHOOSE r \in rows : \A q \in rows \ {r} :
                          \/ SqlLess(r[k_name], q[k_name])
                          \/ r[k_name] = q[k_name] /\ r[k_id].integer < q[k_id].integer
         IN  <<first>> \o OrderByName(rows \ {first})

\* DatabaseManager.get_all_components
get_all_components(file) ==
    LET ordered == OrderByName(file.components)
    IN  [raised |-> "", value |-> PyList([i \in 1..Len(ordered) |-> RowDict(ordered[i])]),
         db |-> file]

(***************************************************************************)
(* The main window with "New Catalogue Structure": after the start the     *)
(* user replaces the structure, imports sheets and exports the items.      *)
(***************************************************************************)
\* DynamicMainWindow.create_new_catalogue: reply is the answer to "Creating
\* a new catalogue will replace the current one and all its data.
\* Continue?", form what the user enters in the wizard
CreateNewCatalogue ==
    /\ pc = "idle"
    /\ catalogue_config # None
    /\ \E reply \in BOOLEAN :
          IF reply
          THEN \E form \in ReplaceInputs, t \in Now : show_setup_wizard(form, t)
          ELSE /\ op' = [create_new_catalogue |-> reply]
               /\ ret' = [question |-> "New Catalogue"]
               /\ UNCHANGED <<db, catalogue_config, clock>>
    /\ issued' = IF DOMAIN ret' = {"information"} THEN {} ELSE issued
    /\ UNCHANGED <<pc, prior, excel_handler, pdf_exporter>>

\* DynamicMainWindow.export_to_excel with a file picked: ret is the sheet
\* that was written
WindowExportToExcel ==
    /\ pc = "idle"
    /\ catalogue_config # None
    /\ excel_handler # None
    /\ op' = [window_export_to_excel |-> TRUE]
    /\ \E items \in {get_all_items(catalogue_config, db)} :
          ret' = IF items.raised # "" THEN [critical |-> items.raised]
                 ELSE [export_complete |->
                         export_to_excel(ColumnsOf(excel_handler), items.value.list)]
    /\ UNCHANGED <<catalogue_config, db, clock, pc, issued, prior>>
    /\ UNCHANGED <<excel_handler, pdf_exporter>>

ReplaceNext ==
    \/ StartWindow
    \/ CreateNewCatalogue
    \/ WindowImportFromExcel
    \/ WindowExportToExcel

ReplaceSpec == Init /\ [][ReplaceNext]_vars

(***************************************************************************)
(* Listing: a dynamic store and a fixed store side by side.  Here db holds *)
(* the two files, db.dynamic at the db_path of the DynamicDatabaseManager  *)
(* and db.fixed at that of the DatabaseManager.                            *)
(***************************************************************************)
ListInit ==
    /\ catalogue_config = None
    /\ db = [dynamic |-> EmptyDb, fixed |-> EmptyComponents]
    /\ clock = 0
    /\ pc = "idle"
    /\ op = [__init__ |-> TRUE]
    /\ ret = Returned(None)
    /\ issued = {}
    /\ prior = [rows |-> 0, configured |-> FALSE]
    /\ excel_handler = None
    /\ pdf_exporter = None

ListCreate ==
    /\ pc = "idle"
    /\ catalogue_config = None
    /\ \E t \in Now :
        \E out \in {create_catalogue_structure(catalogue_config, db.dynamic, PartsConfig,
                                                IsoFormat(t))} :
            /\ db' = [db EXCEPT !.dynamic = out.db]
            /\ catalogue_config' = out.config
            /\ clock' = t
            /\ ret' = Result(out)
    /\ op' = [create_catalogue_structure |-> PartsConfig]
    /\ UNCHANGED <<pc, issued, prior>>
    /\ UNCHANGED <<excel_handler, pdf_exporter>>

ListAddItem ==
    /\ pc = "idle"
    /\ NextRowid(db.dynamic) <= MaxItemId
    /\ \E name \in ListNames, t \in Now :
        \E out \in {add_item(catalogue_config, db.dynamic, (k_name :> PyStr(name)),
                              IsoFormat(t))} :
            /\ op' = [add_item |-> (k_name :> PyStr(name))]
            /\ db' = [db EXCEPT !.dynamic = out.db]
            /\ clock' = IF catalogue_config = None THEN clock ELSE t
            /\ ret' = Result(out)
            /\ issued' = IF out.raised = "" THEN issued \cup {out.value.int} ELSE issued
    /\ UNCHANGED <<catalogue_config, pc, prior>>
    /\ UNCHANGED <<excel_handler, pdf_exporter>>

ListDeleteItem ==
    /\ pc = "idle"
    /\ \E item_id \in ItemIds(db.dynamic) :
        \E out \in {delete_item(catalogue_config, db.dynamic, PyInt(item_id))} :
            /\ op' = [delete_item |-> item_id]
            /\ db' = [db EXCEPT !.dynamic = out.db]
            /\ ret' = Result(out)
    /\ UNCHANGED <<catalogue_config, clock, pc, issued, prior>>
    /\ UNCHANGED <<excel_handler, pdf_exporter>>

GetAllItems ==
    /\ pc = "idle"
    /\ op' = [get_all_items |-> TRUE]
    /\ ret' = Result(get_all_items(catalogue_config, db.dynamic))
    /\ UNCHANGED <<catalogue_config, db, clock, pc, issued, prior>>
    /\ UNCHANGED <<excel_handler, pdf_exporter>>

AddComponent ==
    /\ pc = "idle"
    /\ db.fixed.sqlite_sequence < MaxItemId
    /\ \E name \in ListNames :
        \E out \in {add_component(db.fixed, (k_name :> PyStr(name)))} :
            /\ op' = [add_component |-> (k_name :> PyStr(name))]
            /\ db' = [db EXCEPT !.fixed = out.db]
            /\ ret' = Result(out)
    /\ UNCHANGED <<catalogue_config, clock, pc, issued, prior>>
    /\ UNCHANGED <<excel_handler, pdf_exporter>>

DeleteComponent ==
    /\ pc = "idle"
    /\ \E component_id \in { r[k_id].integer : r \in db.fixed.components } :
        \E out \in {delete_component(db.fixed, PyInt(component_id))} :
            /\ op' = [delete_component |-> component_id]
            /\ db' = [db EXCEPT !.fixed = out.db]
            /\ ret' = Result(out)
    /\ UNCHANGED <<catalogue_config, clock, pc, issued, prior>>
    /\ UNCHANGED <<excel_handler, pdf_exporter>>

GetAllComponents ==
    /\ pc = "idle"
    /\ op' = [get_all_components |-> TRUE]
    /\ ret' = Result(get_all_components(db.fixed))
    /\ UNCHANGED <<catalogue_config, db, clock, pc, issued, prior>>
    /\ UNCHANGED <<excel_handler, pdf_exporter>>

ListNext ==
    \/ ListCreate
    \/ ListAddItem
    \/ ListDeleteItem
    \/ GetAllItems
    \/ AddComponent
    \/ DeleteComponent
    \/ GetAllComponents

ListSpec == ListInit /\ [][ListNext]_vars

(***************************************************************************)
(* The table statement on its own: _generate_table_sql is called with a    *)
(* list of Column Definitions and returns the text.                        *)
(***************************************************************************)
SchemaInvoke ==
    /\ pc = "idle"
    /\ \E columns \in SchemaColumns : op' = [_generate_table_sql |-> columns]
    /\ pc' = "called"
    /\ ret' = Running
    /\ UNCHANGED <<catalogue_config, db, clock, issued, prior>>
    /\ UNCHANGED <<excel_handler, pdf_exporter>>

GenerateTableSql ==
    /\ Calling("_generate_table_sql")
    /\ ret' = Returned(TableSqlText(op._generate_table_sql))
    /\ pc' = "idle"
    /\ UNCHANGED <<catalogue_config, db, clock, op, issued, prior>>
    /\ UNCHANGED <<excel_handler, pdf_exporter>>

SchemaNext == SchemaInvoke \/ GenerateTableSql

SchemaSpec == Init /\ [][SchemaNext]_vars

(***************************************************************************)
(* Properties.                                                             *)
(***************************************************************************)
Configured == catalogue_config # None
ReturnedTrue == Returned(PyBool(TRUE))
ReturnedFalse == Returned(PyBool(FALSE))
RowsWithId(file, item_id) == { r \in file.catalogue_items : r[k_id] = SqlInteger(item_id) }

\* the value a column holds once the raw value was coerced and stored
StoredAs(col, raw) ==
    ApplyAffinity(_get_sql_type(col.data_type), Bind(_convert_value(raw, col.data_type)))

\* what add_item is to store in column col: the supplied value when the key
\* is present, the column's declared default when it is missing
AddExpected(col, item_data) ==
    StoredAs(col, IF col.name \in DOMAIN item_data THEN item_data[col.name]
                  ELSE PyStr(col.default_value))

\* a required column would be left without a value
AddLeavesRequiredEmpty(columns, item_data) ==
    \E i \in 1..Len(columns) :
        columns[i].required /\ AddExpected(columns[i], item_data) = SqlNull

\* one add_item call of a configured store; with_not_null tells whether the
\* statement takes the NOT NULL constraint of required columns into account
AddItemStep(with_not_null) ==
    (Calling("add_item") /\ Configured) =>
        LET columns == ColumnsOf(catalogue_config)
            item_data == op.add_item
            new == db'.catalogue_items \ db.catalogue_items
        IN  IF with_not_null /\ AddLeavesRequiredEmpty(columns, item_data)
            THEN ret' = Raised("IntegrityError") /\ db' = db
            ELSE /\ Cardinality(new) = 1
                 /\ db.catalogue_items \subseteq db'.catalogue_items
                 /\ \A r \in new :
                       /\ ret' = Returned(PyInt(r[k_id].integer))
                       /\ r[k_id].integer \notin ItemIds(db)
                       /\ \A i \in 1..Len(columns) :
                             r[columns[i].name] = AddExpected(columns[i], item_data)

UpdateItemStep(with_not_null) ==
    (Calling("update_item") /\ Configured) =>
        LET item_id == op.update_item[1]
            item_data == op.update_item[2]
            columns == ColumnsOf(catalogue_config)
            hits == RowsWithId(db, item_id)
            supplied(name) == \E i \in 1..Len(columns) :
                                 columns[i].name = name /\ name \in DOMAIN item_data
            colOf(name) == columns[CHOOSE i \in 1..Len(columns) : columns[i].name = name]
            expected(r) == [name \in DOMAIN r |->
                              IF supplied(name) THEN StoredAs(colOf(name), item_data[name])
                              ELSE IF name = k_modified_date THEN SqlText(IsoFormat(clock'))
                              ELSE r[name]]
            leaves_empty == \E i \in 1..Len(columns) :
                               /\ columns[i].required
                               /\ supplied(columns[i].name)
                               /\ StoredAs(columns[i], item_data[columns[i].name]) = SqlNull
        IN  IF hits = {}
            THEN ret' = ReturnedFalse /\ db' = db
            ELSE IF with_not_null /\ leaves_empty
            THEN ret' = Raised("IntegrityError") /\ db' = db
            ELSE /\ ret' = ReturnedTrue
                 /\ db'.catalogue_items =
                       (db.catalogue_items \ hits) \cup { expected(r) : r \in hits }
                 /\ [db' EXCEPT !.catalogue_items = {}] = [db EXCEPT !.catalogue_items = {}]

C3_Delete ==
    [][(Calling("delete_item") /\ Configured) =>
          LET hits == RowsWithId(db, op.delete_item)
          IN  /\ ret' = Returned(PyBool(hits # {}))
              /\ RowsWithId(db', op.delete_item) = {}
              /\ db'.catalogue_items = db.catalogue_items \ hits
              /\ hits = {} =>
                    /\ db' = db
                    /\ Cardinality(db'.catalogue_items) = Cardinality(db.catalogue_items)]_vars

\* a delete of one of two rows returned true and left the other row
C3_Witness ==
    /\ pc = "idle" /\ Configured /\ DOMAIN op = {"delete_item"}
    /\ ret = ReturnedTrue
    /\ prior.rows = 2
    /\ Cardinality(db.catalogue_items) = 1
    /\ RowsWithId(db, op.delete_item) = {}

\* C4: within one structure epoch no two rows share an id, every stored id was
\* returned by add_item, and every id add_item returns differs from the id of
\* every stored row, was never returned before and is greater than every id
\* returned before, whatever was deleted in between.
C4_IdsNeverReused ==
    /\ [](/\ \A r1 \in db.catalogue_items : \A r2 \in db.catalogue_items :
                r1[k_id] = r2[k_id] => r1 = r2
          /\ ItemIds(db) \subseteq issued)
    /\ [][(Calling("add_item") /\ DOMAIN ret' = {"returned"}) =>
             LET new_id == ret'.returned.int
             IN  /\ new_id \notin ItemIds(db)
                 /\ new_id \notin issued
                 /\ \A i \in issued : new_id > i]_vars

\* the row with the highest id, 1, was deleted and the next add returned 2
C4_Witness ==
    /\ pc = "idle" /\ DOMAIN op = {"add_item"}
    /\ ret = Returned(PyInt(2))
    /\ prior.rows = 0
    /\ issued = {1, 2}
    /\ ItemIds(db) = {2}

\* what a new instance on the file loads: the persisted configuration
Persisted(file) == load_catalogue_config(None, file).value

\* the store as a successful create_catalogue_structure(config) leaves it,
\* whatever the time of the call
AsCreated(self_config, file, config) ==
    /\ self_config = config
    /\ Persisted(file) = config
    /\ Cardinality(file.catalogue_config) = 1
    /\ file.has_items
    /\ file.items_stmt = _generate_table_sql(ColumnsOf(config))
    /\ file.catalogue_items = {}
    /\ file.sqlite_sequence = 0

\* C5: create_catalogue_structure is destructive and idempotent: after every
\* successful call the row table exists and is empty and the store is as a
\* first create of that configuration leaves it, whatever rows and columns it
\* had before; called again with the same configuration on a store a
\* successful create of it has left, it succeeds again.
C5_CreateDestructiveIdempotent ==
    [][Calling("create_catalogue_structure") =>
          LET config == op.create_catalogue_structure
          IN  /\ ret' = ReturnedTrue =>
                    /\ db'.has_items /\ db'.catalogue_items = {}
                    /\ AsCreated(catalogue_config', db', config)
              /\ AsCreated(catalogue_config, db, config) => ret' = ReturnedTrue]_vars

\* a create that succeeded on a table that held rows
C5_Witness ==
    /\ pc = "idle" /\ op = [create_catalogue_structure |-> PartsConfig]
    /\ ret = ReturnedTrue
    /\ prior.rows = 2 /\ prior.configured
    /\ db.catalogue_items = {}

\* C6: the persisted configuration holds at most one record in every state;
\* a successful create_catalogue_structure(config) makes it config, nothing
\* else changes it, and load_catalogue_config, on a new instance too, returns
\* it: the same name and the same ordered list of column definitions.
C6_SingleConfigSurvivesRestart ==
    /\ [](Cardinality(db.catalogue_config) <= 1)
    /\ [][/\ IF Calling("create_catalogue_structure") /\ ret' = ReturnedTrue
             THEN Persisted(db') = op.create_catalogue_structure
             ELSE Persisted(db') = Persisted(db)
          /\ Calling("load_catalogue_config") =>
                /\ ret' = Returned(Persisted(db))
                /\ Persisted(db) # None => catalogue_config' = Persisted(db)]_vars

\* a new instance loaded the configuration an earlier one created, the one
\* whose columns leave the optional keys out
C6_Witness ==
    /\ pc = "idle" /\ op = [load_catalogue_config |-> TRUE]
    /\ ~prior.configured
    /\ ret = Returned(StockConfig)
    /\ catalogue_config = StockConfig

\* C7: once an instance is Configured no call on it, a failed
\* create_catalogue_structure included, returns it to Unconfigured; its
\* configuration changes only by create_catalogue_structure and
\* load_catalogue_config, and a new instance starts Unconfigured.
C7_ConfiguredIsOneWay ==
    [][/\ (Configured /\ ~Calling("__init__")) => catalogue_config' # None
       /\ catalogue_config' # catalogue_config =>
             \/ Calling("create_catalogue_structure") /\ ret' = ReturnedTrue
             \/ Calling("load_catalogue_config")
             \/ Calling("__init__")]_vars

\* a create failed on a configured instance, which is still configured
C7_Witness ==
    /\ pc = "idle" /\ op = [create_catalogue_structure |-> ClashConfig]
    /\ ret = ReturnedFalse
    /\ prior.configured
    /\ catalogue_config = PartsConfig

\* C8: while the instance is Unconfigured add_item raises and inserts nothing,
\* and neither update_item nor delete_item changes a persisted row, whatever
\* row table an earlier process left.
C8_RowCallsNeedConfigured ==
    [][~Configured =>
          /\ Calling("add_item") => DOMAIN ret' = {"raised"} /\ db' = db
          /\ (Calling("update_item") \/ Calling("delete_item")) =>
                db'.catalogue_items = db.catalogue_items]_vars

\* C9: create_catalogue_structure returns true or false and never raises,
\* and when it returns false the persisted configuration, the row table with
\* its rows and the instance's configuration are as before the call.
C9_FailedCreateKeepsState ==
    [][Calling("create_catalogue_structure") =>
          /\ ret' \in {ReturnedTrue, ReturnedFalse}
          /\ ret' = ReturnedFalse => db' = db /\ catalogue_config' = catalogue_config]_vars

\* a create failed on a store that holds a configuration and rows
C9_Witness ==
    /\ pc = "idle" /\ op = [create_catalogue_structure |-> ClashConfig]
    /\ ret = ReturnedFalse
    /\ prior.rows = 2
    /\ Cardinality(db.catalogue_items) = 2
    /\ Persisted(db) = StockConfig

\* the text columns of the active configuration
TextColumns == SelectSeq(ColumnsOf(catalogue_config), LAMBDA col : col.data_type = "text")
ListRows == get_all_items(catalogue_config, db).value
SearchEmpty == search_items(catalogue_config, db, <<>>).value

\* C10 as stated: in every state of a configured store search("") returns the
\* same rows as list_rows().
C10_SearchEmptyIsListRows ==
    Configured => SearchEmpty = ListRows

\* C10 amended: search("") returns, in the order of list_rows(), the rows of
\* list_rows() that hold a value in at least one text column: all of them when
\* every row holds one, none when the configuration has no text column.
C10_SearchEmptyIsRowsWithText ==
    Configured =>
        SearchEmpty = PyList(SelectSeq(ListRows.list,
                          LAMBDA row : \E i \in 1..Len(TextColumns) :
                                          row[TextColumns[i].name] # None))

\* of two rows, search("") returns the one whose text column holds a value
C10_Witness ==
    /\ pc = "idle" /\ catalogue_config = NotesConfig
    /\ Len(ListRows.list) = 2
    /\ Len(SearchEmpty.list) = 1

(***************************************************************************)
(* C11: what search_items matches.                                         *)
(***************************************************************************)
Search(term) == search_items(catalogue_config, db, term).value
\* the rows of list_rows() that hold term, ignoring case, in a text column
RowsHolding(term) ==
    PyList(SelectSeq(ListRows.list,
               LAMBDA row : \E i \in 1..Len(TextColumns) :
                               /\ IsStr(row[TextColumns[i].name])
                               /\ IsSubstring(Lower(term),
                                              Lower(row[TextColumns[i].name].str))))

\* C11: in every state of a configured store search(term) returns exactly the
\* rows in which some text column contains term as a case-insensitive
\* substring, the empty list when there is no text column, and no row on
\* account of a column of another type.
C11_SearchIsSubstring ==
    Configured => \A term \in SearchTerms : Search(term) = RowsHolding(term)

(***************************************************************************)
(* C12: required columns of stored rows, under WindowSpec.                 *)
(***************************************************************************)
\* no stored row is empty or NULL in a column marked required
NoEmptyRequiredStored ==
    Configured =>
        \A r \in db.catalogue_items : \A i \in 1..Len(ColumnsOf(catalogue_config)) :
            ColumnsOf(catalogue_config)[i].required
                => r[ColumnsOf(catalogue_config)[i].name] \notin {SqlNull, SqlText(<<>>)}

\* the handler that just ran handed the store an item that the NOT NULL
\* constraint of a required column turned down
StoreTurnedDown ==
    \/ DOMAIN op = {"form_add_item"} /\ ret = [critical |-> "IntegrityError"]
    \/ /\ DOMAIN ret = {"import_complete"}
       /\ \E k \in 1..Len(ret.import_complete.errors) :
             ret.import_complete.errors[k].error = "IntegrityError"

\* C12: no row is ever stored with an empty or NULL value in a required
\* column, and an add whose required field is empty is stopped by the
\* caller's validation before it reaches the store, after any sequence of
\* form adds, form updates and spreadsheet imports.
C12_EmptyRequiredStopsAtCaller == NoEmptyRequiredStored /\ ~StoreTurnedDown

(***************************************************************************)
(* C13: the storage class of what the row table holds.                     *)
(***************************************************************************)
\* a stored value is absent or of the storage class of the logical type
HoldsType(data_type, v) ==
    \/ v = SqlNull
    \/ CASE data_type = "number" -> IsSqlInteger(v)
          [] data_type = "decimal" -> IsSqlReal(v)
          [] data_type = "boolean" -> v \in {SqlInteger(0), SqlInteger(1)}
          [] OTHER -> IsSqlText(v)

\* C13: after any sequence of add_item and update_item calls every stored
\* row has the surrogate key, the two timestamps and the defined columns and
\* nothing else, and each column holds a value of its logical type (integer,
\* real, 0 or 1, text) or none.
C13_StoredValuesAreTyped ==
    Persisted(db) # None =>
        LET columns == ColumnsOf(Persisted(db))
        IN  \A r \in db.catalogue_items :
                /\ DOMAIN r = {k_id, k_created_date, k_modified_date}
                               \cup { columns[i].name : i \in 1..Len(columns) }
                /\ \A i \in 1..Len(columns) :
                       HoldsType(columns[i].data_type, r[columns[i].name])

(***************************************************************************)
(* C14, C15, C16: the coercion routines, under CoerceSpec.                 *)
(***************************************************************************)
OnWritePath == DOMAIN op = {"_convert_value"}
OnImportPath == DOMAIN op = {"_convert_excel_value"}
\* the raw value, the logical type and the result of the last coercion
RawValue == IF OnWritePath THEN op._convert_value[1] ELSE op._convert_excel_value[1]
TargetType == IF OnWritePath THEN op._convert_value[2]
              ELSE op._convert_excel_value[2].data_type
Coerced == ret.returned

\* a value of the logical type
TypedAs(data_type, v) ==
    CASE data_type = "number" -> IsInt(v)
      [] data_type = "decimal" -> IsFloat(v)
      [] data_type = "boolean" -> IsBool(v) \/ v \in {PyInt(0), PyInt(1)}
      [] OTHER -> IsStr(v)

\* the declared default of the column being imported, or the zero value of
\* its type when it declares none
DeclaredOrZero(column) ==
    IF column.default_value # <<>> THEN PyStr(column.default_value)
    ELSE CASE column.data_type = "number" -> PyInt(0)
           [] column.data_type = "decimal" -> PyFloat(0)
           [] column.data_type = "boolean" -> PyBool(FALSE)
           [] OTHER -> PyStr(<<>>)

\* C14: whatever the raw input and the logical type, what a coercion returns
\* is a value of that type, or the declared default or the zero value in its
\* place (on the write path, which is not told the default, no value at all):
\* the input that cannot be coerced never comes back as it was.
C14_CoercionDegrades ==
    /\ OnWritePath => Coerced = None \/ TypedAs(TargetType, Coerced)
    /\ OnImportPath =>
          \/ TypedAs(TargetType, Coerced)
          \/ Coerced = DeclaredOrZero(op._convert_excel_value[2])

\* C15: for a column of type number, "3.0" coerces to the integer 3 and the
\* empty string to the declared default, or 0 when none is declared, on
\* both paths.
C15_IntegerCoercion ==
    (OnWritePath \/ OnImportPath) /\ TargetType = "number" =>
        /\ RawValue = PyStr(<<"3", ".", "0">>) => Coerced = PyInt(3)
        /\ RawValue = PyStr(<<>>) =>
              IF OnImportPath THEN Coerced = DeclaredOrZero(op._convert_excel_value[2])
              ELSE Coerced \in {PyInt(0), PyInt(1), PyStr(<<"1">>)}

\* the words the specification reads as true
TrueWords == { <<"t", "r", "u", "e">>, <<"1">>, <<"y", "e", "s">>, <<"o", "n">> }
\* x reads as true: a string that is one of the words in lower case (with
\* "y" on the import path), or a native value that is true or not zero
ReadsTrue(x) ==
    IF IsStr(x)
    THEN Lower(x.str) \in (TrueWords \cup (IF OnImportPath THEN { <<"y">> } ELSE {}))
    ELSE x = PyBool(TRUE) \/ (IsInt(x) /\ x.int # 0) \/ (IsFloat(x) /\ x.float # 0)
         \/ IsTimestamp(x)
\* a result that counts as true: 1, True or a non-empty string
CountsTrue(v) == v \in {PyInt(1), PyBool(TRUE)} \/ (IsStr(v) /\ v.str # <<>>)
\* no input at all
EmptyInput(x) == x \in {None, NaN, PyStr(<<>>)}

\* C16 as stated: for a boolean column the result is true iff the input reads
\* as true, and false for every other input.
C16_BooleanIffReadsTrue ==
    (OnWritePath \/ OnImportPath) /\ TargetType = "boolean" =>
        (CountsTrue(Coerced) <=> ReadsTrue(RawValue))

\* C16 amended: for a boolean column an input that is not empty coerces to
\* true (1 on the write path, True on the import path) iff it reads as true
\* and to false (0, False) otherwise; an empty input gives no value on the
\* write path and the declared default, or False without one, on the import
\* path.
C16_BooleanIffReadsTrueUnlessEmpty ==
    (OnWritePath \/ OnImportPath) /\ TargetType = "boolean" =>
        IF EmptyInput(RawValue)
        THEN IF OnWritePath THEN Coerced = None
             ELSE Coerced = DeclaredOrZero(op._convert_excel_value[2])
        ELSE IF OnWritePath THEN Coerced = PyInt(IF ReadsTrue(RawValue) THEN 1 ELSE 0)
             ELSE Coerced = PyBool(ReadsTrue(RawValue))

\* the import path has read "y" as true
C16_Witness ==
    /\ OnImportPath /\ TargetType = "boolean"
    /\ RawValue = PyStr(<<"y">>) /\ Coerced = PyBool(TRUE)

(***************************************************************************)
(* C17: column keys that collide.                                          *)
(***************************************************************************)
\* a column key of config is a reserved name or the key of another column
Collides(config) ==
    \E i \in 1..Len(config.columns) :
        \/ config.columns[i].name \in {k_id, k_created_date, k_modified_date}
        \/ \E j \in 1..Len(config.columns) :
               j # i /\ config.columns[j].name = config.columns[i].name

\* C17: no configuration with a colliding column key is ever the active one
\* or the persisted one, and create_catalogue_structure called with such a
\* configuration returns false and changes neither the file nor the active
\* configuration.
C17_NoCollidingKeysActive ==
    /\ [](/\ Configured => ~Collides(catalogue_config)
          /\ Persisted(db) # None => ~Collides(Persisted(db)))
    /\ [][Calling("create_catalogue_structure") /\ Collides(op.create_catalogue_structure)
            => /\ ret' = ReturnedFalse
               /\ db' = db
               /\ catalogue_config' = catalogue_config]_vars

\* a configuration with two columns of one key was turned down by a store
\* that holds rows
C17_Witness ==
    /\ pc = "idle" /\ op = [create_catalogue_structure |-> TwinConfig]
    /\ ret = ReturnedFalse
    /\ db.catalogue_items # {}

(***************************************************************************)
(* C18: the column keys the setup wizard hands on, under WizardSpec.       *)
(***************************************************************************)
\* the configuration the wizard was accepted with and handed to the store
HandedOn == IF DOMAIN ret = {"information"} THEN ret.information ELSE ret.critical
\* a key of [a-z0-9_]+
IsCleanKey(s) ==
    /\ s # <<>>
    /\ \A i \in 1..Len(s) : IsLowerLetter(s[i]) \/ IsDigit(s[i]) \/ s[i] = "_"

\* C18: every column key of a configuration that the wizard hands to
\* create_catalogue_structure is non-empty and made of a-z, 0-9 and _ only,
\* whatever was typed as the column name.
C18_KeysAreSanitized ==
    DOMAIN ret \in {{"information"}, {"critical"}} =>
        \A i \in 1..Len(HandedOn.columns) : IsCleanKey(HandedOn.columns[i].name)

(***************************************************************************)
(* C19, C20: the matching of headers to columns, under ImportSpec.         *)
(***************************************************************************)
Importing == pc = "idle" /\ DOMAIN op = {"import_from_excel"}
\* the columns of the importing handler and the headers it compares
HandlerColumns == op.import_from_excel[1]
SheetHeaders == StripHeaders(op.import_from_excel[2].headers)
\* header k equals the label ignoring case
EqualsLabel(k, column) == Lower(SheetHeaders[k]) = Lower(column.display_name)
\* header k contains the label or is contained in it, ignoring case
SharesLabel(k, column) ==
    \/ IsSubstring(Lower(column.display_name), Lower(SheetHeaders[k]))
    \/ IsSubstring(Lower(SheetHeaders[k]), Lower(column.display_name))
\* the header the matching gives the column (0: none)
Chosen(column) == MatchedHeader(SheetHeaders, column)

C20_EarliestColumnKeepsHeader ==
    Importing =>
        \A k \in 1..Len(SheetHeaders) :
            LET takers == { i \in 1..Len(HandlerColumns) : Chosen(HandlerColumns[i]) = k }
            IN  takers # {} =>
                    column_mapping(SheetHeaders, HandlerColumns)[SheetHeaders[k]]
                        = HandlerColumns[CHOOSE i \in takers : \A j \in takers : i <= j].name

(***************************************************************************)
(* C21: the report of validate_excel_format, under ImportSpec.             *)
(***************************************************************************)
Validating == pc = "idle" /\ DOMAIN op = {"validate_excel_format"}
ValidatedColumns == op.validate_excel_format[1]
ValidatedHeaders == StripHeaders(op.validate_excel_format[2].headers)
Report == ret.returned
\* the elements of a sequence
Range(seq) == { seq[i] : i \in 1..Len(seq) }
\* no header equals the label or shares a substring relation with it
MatchesNoHeader(column) ==
    \A k \in 1..Len(ValidatedHeaders) :
        /\ Lower(ValidatedHeaders[k]) # Lower(column.display_name)
        /\ ~IsSubstring(Lower(column.display_name), Lower(ValidatedHeaders[k]))
        /\ ~IsSubstring(Lower(ValidatedHeaders[k]), Lower(column.display_name))
ReportedMatched(column) ==
    \E m \in Range(Report.matched_columns) : m.catalogue_column = column.display_name
ReportedMissing(column) == column.display_name \in Range(Report.missing_columns)
ReportedUnmatched(column) == column.display_name \in Range(Report.unmatched_columns)

\* C21: for a sheet that was read, validate_excel_format reports every
\* column that matches no header (neither by equality nor by substring) as
\* missing when it is required and as unmatched otherwise, every other
\* column as matched, and the file as valid iff no required column matches
\* no header.
C21_ValidationReport ==
    Validating =>
        /\ \A column \in Range(ValidatedColumns) :
              /\ ReportedMissing(column) <=> (MatchesNoHeader(column) /\ column.required)
              /\ ReportedUnmatched(column) <=> (MatchesNoHeader(column) /\ ~column.required)
              /\ ReportedMatched(column) <=> ~MatchesNoHeader(column)
        /\ Len(Report.matched_columns) + Len(Report.missing_columns)
              + Len(Report.unmatched_columns) = Len(ValidatedColumns)
        /\ Report.valid <=>
              ~\E column \in Range(ValidatedColumns) : column.required /\ MatchesNoHeader(column)

\* the required Name matches no header and is missing, Qty is matched through
\* the header "Qt" it contains, and the file is not valid
C21_Witness ==
    /\ Validating
    /\ ValidatedColumns = <<NameColumn, QtyColumn>>
    /\ ValidatedHeaders = << <<"Q", "t">> >>
    /\ Report.missing_columns = << NameColumn.display_name >>
    /\ ReportedMatched(QtyColumn)
    /\ ~Report.valid

(***************************************************************************)
(* C22: the rows import_from_excel discards, under ImportSpec.             *)
(***************************************************************************)
ImportedRows == op.import_from_excel[2].rows
\* the headers of the sheet once renamed to the column keys they map to
RenamedHeaders == Renamed(SheetHeaders, column_mapping(SheetHeaders, HandlerColumns))
\* the row holds a non-empty cell under a header mapped to the column
RowHasValue(column, row) ==
    \E j \in 1..Len(RenamedHeaders) :
        RenamedHeaders[j] = column.name /\ ~IsNa(row[j]) /\ HasText(row[j])
\* the columns whose cells decide whether a row is kept
DecidingColumns ==
    IF \E column \in Range(HandlerColumns) : column.required
    THEN { column \in Range(HandlerColumns) : column.required }
    ELSE Range(HandlerColumns)
RowIsKept(row) == \E column \in DecidingColumns : RowHasValue(column, row)

\* C22: import_from_excel discards a data row exactly when no required
\* column (no column at all, when none is required) has a non-empty value
\* in it; every other row yields one item, in which a column that no header
\* is mapped to holds the column's default.
C22_DiscardsExactlyEmptyRows ==
    (Importing /\ DOMAIN ret = {"returned"}) =>
        /\ Len(ret.returned.list)
              = Cardinality({ r \in 1..Len(ImportedRows) : RowIsKept(ImportedRows[r]) })
        /\ \A n \in 1..Len(ret.returned.list) : \A column \in Range(HandlerColumns) :
              column.name \notin Range(RenamedHeaders)
                  => ret.returned.list[n][column.name] = DefaultOr(column)

(***************************************************************************)
(* C23: export followed by import, on the rows of every state of Spec.     *)
(***************************************************************************)
\* the handler of the active configuration exports what get_all_items gives
ExportedItems == get_all_items(catalogue_config, db).value.list
ExportedSheet == export_to_excel(ColumnsOf(catalogue_config), ExportedItems)
\* and imports the file it wrote
ReImported == import_from_excel(ColumnsOf(catalogue_config), read_excel(ExportedSheet))
StoredRows == OrderById(db.catalogue_items)

\* C23: in every state with an active configuration, exporting the stored
\* rows and importing the produced file with the same configuration gives
\* one item per row, whose value in every column is, once coerced for
\* storage, the value the row holds.
C23_RoundTrip ==
    (pc = "idle" /\ Configured /\ db.has_items) =>
        /\ ReImported.raised = ""
        /\ Len(ReImported.value.list) = Len(StoredRows)
        /\ \A n \in 1..Len(StoredRows) : \A column \in Range(ColumnsOf(catalogue_config)) :
              StoredAs(column, ReImported.value.list[n][column.name])
                  = StoredRows[n][column.name]

(***************************************************************************)
(* C24: get_column_values, on every state of Spec.                         *)
(***************************************************************************)
ColumnValues(column_key) == get_column_values(catalogue_config, db, column_key)
\* column_key is the key of a column of the active configuration
IsDefinedColumn(column_key) ==
    Configured /\ \E column \in Range(ColumnsOf(catalogue_config)) : column.name = column_key
\* the non-empty values the stored rows hold under column_key, as returned
NonEmptyValues(column_key) ==
    { Fetch(r[column_key]) : r \in { q \in db.catalogue_items :
                                        q[column_key] \notin {SqlNull, SqlText(<<>>)} } }
\* a list without repetition in ascending order
IsAscending(list) ==
    \A i \in 1..Len(list), j \in 1..Len(list) : i < j => SqlLess(Bind(list[i]), Bind(list[j]))

\* C24: get_column_values never raises; for the key of a defined column it
\* returns the distinct non-empty values stored under it in ascending order,
\* and for every other key the empty list.
C24_ColumnValues ==
    pc = "idle" =>
        \A column_key \in ColumnNameInputs :
            /\ ColumnValues(column_key).raised = ""
            /\ IF IsDefinedColumn(column_key) /\ db.has_items
               THEN /\ Range(ColumnValues(column_key).value.list) = NonEmptyValues(column_key)
                    /\ IsAscending(ColumnValues(column_key).value.list)
               ELSE ColumnValues(column_key).value.list = <<>>

(***************************************************************************)
(* C25: the audit timestamps, under Spec.  The readings of datetime.now()  *)
(* do not decrease (Now).                                                  *)
(***************************************************************************)
\* the clock reading a stored timestamp was formatted from
ClockOf(stamp) == DigitsVal(Tail(stamp.text))
CreatedAt(r) == ClockOf(r[k_created_date])
ModifiedAt(r) == ClockOf(r[k_modified_date])

\* an add_item call returns: the row it inserted carries the time of the
\* call in both timestamps
AddStamps ==
    (Calling("add_item") /\ pc' = "idle" /\ DOMAIN ret' = {"returned"}) =>
        /\ db'.catalogue_items \ db.catalogue_items # {}
        /\ \A r \in db'.catalogue_items \ db.catalogue_items :
              CreatedAt(r) = clock' /\ ModifiedAt(r) = clock'

\* an update_item call returns True: the row it matched carries the time of
\* the call as modified_date and the created_date it had
UpdateStamps ==
    (Calling("update_item") /\ pc' = "idle" /\ ret' = ReturnedTrue) =>
        \A r \in RowsWithId(db', op.update_item[1]) :
            /\ ModifiedAt(r) = clock'
            /\ \E q \in RowsWithId(db, op.update_item[1]) : CreatedAt(q) = CreatedAt(r)

GetRow(item_id) == get_item_by_id(catalogue_config, db, PyInt(item_id))
\* a delete_item call for an id no row has returns
DeleteOfMissingRow ==
    Calling("delete_item") /\ pc' = "idle" /\ RowsWithId(db, op.delete_item) = {}

\* C26: in every state of the store, also before any catalogue structure
\* was created, get_item_by_id returns None and delete_item returns False
\* for an id that no row has; neither raises.
C26_MissingRowSentinel ==
    /\ [](pc = "idle" =>
            \A item_id \in ItemIdInputs :
                RowsWithId(db, item_id) = {}
                    => GetRow(item_id).raised = "" /\ GetRow(item_id).value = None)
    /\ [][DeleteOfMissingRow => ret' = ReturnedFalse]_vars

(***************************************************************************)
(* C27: the order of the listings, under ListSpec.                         *)
(***************************************************************************)
Listed == ret.returned.list
ListedAfter(call) == pc = "idle" /\ DOMAIN op = {call} /\ DOMAIN ret = {"returned"}
\* the listing holds each of the stored rows once and nothing else
ListsExactly(rows) ==
    /\ Len(Listed) = Cardinality(rows)
    /\ { Listed[i] : i \in 1..Len(Listed) } = { RowDict(r) : r \in rows }
IdOf(d) == d[k_id].int
NameOf(d) == d[k_name].str
AscendingId ==
    \A i, j \in 1..Len(Listed) : i < j => IdOf(Listed[i]) < IdOf(Listed[j])
AscendingName ==
    \A i, j \in 1..Len(Listed) :
        i < j => ~TextLess(NameOf(Listed[j]), NameOf(Listed[i]))
\* a listing call that follows the same listing call with no step between
SameCallAgain ==
    /\ pc = "idle" /\ pc' = "idle"
    /\ op' = op /\ db' = db
    /\ DOMAIN op \in {{"get_all_items"}, {"get_all_components"}}

\* C27: get_all_items returns the stored rows in ascending id, which is the
\* order of insertion; get_all_components returns the stored rows in
\* ascending name; a call repeated over the same stored rows returns the
\* same sequence.
C27_ListingOrder ==
    /\ [](ListedAfter("get_all_items")
            => ListsExactly(db.dynamic.catalogue_items) /\ AscendingId)
    /\ [](ListedAfter("get_all_components")
            => ListsExactly(db.fixed.components) /\ AscendingName)
    /\ [][SameCallAgain => ret' = ret]_vars

\* components inserted as 'bolt' and then 'Bolt' are listed 'Bolt' first,
\* beside a dynamic store of two rows
C27_Witness ==
    /\ ListedAfter("get_all_components")
    /\ Len(Listed) = 2
    /\ IdOf(Listed[1]) = 2 /\ NameOf(Listed[1]) = Bolt
    /\ IdOf(Listed[2]) = 1
    /\ Cardinality(db.dynamic.catalogue_items) = 2

(***************************************************************************)
(* C28: the generated table definition, under SchemaSpec.                  *)
(***************************************************************************)
Generated == pc = "idle" /\ DOMAIN op = {"_generate_table_sql"}
GivenColumns == op._generate_table_sql
\* the table definition the returned text stands for
TableDefinition == ReadCreateTable(ret.returned)
\* the column definition a Column Definition asks for
AskedFor(column) ==
    [name |-> column.name,
     type_name |-> SqlTypeText(_get_sql_type(column.data_type)),
     autoincrement |-> FALSE,
     not_null |-> column.required,
     has_default |-> column.default_value # <<>>,
     default |-> column.default_value]
\* id INTEGER PRIMARY KEY AUTOINCREMENT; created_date TEXT and modified_date TEXT
KeyColumn ==
    [name |-> k_id, type_name |-> SqlTypeText("INTEGER"), autoincrement |-> TRUE,
     not_null |-> FALSE, has_default |-> FALSE, default |-> <<>>]
AuditColumn(name) ==
    [name |-> name, type_name |-> SqlTypeText("TEXT"), autoincrement |-> FALSE,
     not_null |-> FALSE, has_default |-> FALSE, default |-> <<>>]
DefinitionAsAsked ==
    /\ DOMAIN TableDefinition = {"columns"}
    /\ TableDefinition.columns =
          <<KeyColumn>>
          \o [i \in 1..Len(GivenColumns) |-> AskedFor(GivenColumns[i])]
          \o <<AuditColumn(k_created_date), AuditColumn(k_modified_date)>>
QuoteFree(columns) ==
    \A i \in 1..Len(columns) :
        \A k \in 1..Len(columns[i].default_value) : columns[i].default_value[k] # "'"

\* C28: for every ordered list of Column Definitions the generated table
\* definition lists the key id first, then one column per Column Definition
\* in order, with the mapped storage type, NOT NULL iff required and
\* DEFAULT with the declared default iff the default is non-empty, and
\* created_date and modified_date last.
C28_TableDefinition == Generated => DefinitionAsAsked

\* the same for the Column Definitions whose default holds no quote
QuoteFreeDefinitionAsAsked == (Generated /\ QuoteFree(GivenColumns)) => DefinitionAsAsked

(***************************************************************************)
(* C29: the handlers of the main window, under ReplaceSpec.                *)
(***************************************************************************)
HandlersOfConfiguration ==
    catalogue_config # None =>
        excel_handler = catalogue_config /\ pdf_exporter = catalogue_config
Exported == pc = "idle" /\ DOMAIN op = {"window_export_to_excel"}
                        /\ DOMAIN ret = {"export_complete"}
DisplayNames(config) ==
    [i \in 1..Len(ColumnsOf(config)) |-> ColumnsOf(config)[i].display_name]

\* C29: whenever the main window holds a catalogue configuration, its
\* excel_handler and its pdf_exporter were made from that configuration,
\* also after create_new_catalogue replaced the structure; an export
\* started then writes the columns of the new structure.
C29_HandlersFollowConfiguration ==
    /\ HandlersOfConfiguration
    /\ Exported => ret.export_complete.headers = DisplayNames(catalogue_config)

(***************************************************************************)
(* C30: validation and import on one sheet, under ImportSpec.              *)
(***************************************************************************)
\* the headers as import_from_excel renames them for the validated sheet
ImportHeadersFor == Renamed(ValidatedHeaders, column_mapping(ValidatedHeaders, ValidatedColumns))
\* the places of the headers whose cells the import loads into the column
LoadedFrom(column) == { j \in 1..Len(ImportHeadersFor) : ImportHeadersFor[j] = column.name }
\* the report matches the column to the header
ReportedHeader(column, header) ==
    \E m \in Range(Report.matched_columns) :
        m.catalogue_column = column.display_name /\ m.excel_column = header

\* C30: the header validate_excel_format reports as matched to a column is
\* the header whose cells import_from_excel loads into that column, and a
\* column reported as matched has such a header.
C30_SameMapping ==
    Validating =>
        \A column \in Range(ValidatedColumns) :
            \A k \in 1..Len(ValidatedHeaders) :
                ReportedHeader(column, ValidatedHeaders[k])
                    => LoadedFrom(column) # {}
                       /\ ValidatedHeaders[FirstOf(LoadedFrom(column))] = ValidatedHeaders[k]

====
